---- MODULE Spec2Model ----
(***************************************************************************)
(* A model of the cedar-go policy engine: scope parsing and lowering,      *)
(* the tree-walking evaluator with its value model, the entity stores and  *)
(* the authorization entry points.                                         *)
(***************************************************************************)
EXTENDS Integers, Sequences, FiniteSets, TLC

VARIABLES
    store,      \* the engine.Store the authorizer was built with
    request,    \* the cedar.Request of the current call
    sources,    \* the policy statements of the source text, in order
    policies,   \* engine.PolicyList produced by ParseRules from sources
    exprIn,     \* the last expression node handed to evalNode directly
    exprOut,    \* what evalNode returned for exprIn
    plOut,      \* what PolicyList.evalNode returned for the last call
    evalOut,    \* what engine.Eval returned for the last call
    detailOut,  \* what IsAuthorizedDetail returned for the last call
    authOut,    \* what IsAuthorized returned for the last call
    parseErr,   \* ParseRules returned an error for sources
    pc,         \* "idle" before an authorization call, "done" after it
    calls,      \* the authorization calls in progress, one policy at a time
    walk,       \* the loop of EntityStore.GetParents, one iteration at a time
    scanner     \* the Scanner over a policy text, one Scan call at a time

vars == <<store, request, sources, policies, exprIn, exprOut, plOut, evalOut,
          detailOut, authOut, parseErr, pc, calls, walk, scanner>>

\* ------------------------------------------------------------------------
\* Bounds

MaxPolicies == 3

\* ------------------------------------------------------------------------
\* Runtime values (engine/value.go)

BoolValue(b) == [b |-> b, t |-> "boolean"]
IntValue(n) == [t |-> "long", n |-> n]
StrValue(s) == [t |-> "string", s |-> s]
EntityValue(parts) == [t |-> "entity", e |-> parts]
SetValue(items) == [t |-> "set", items |-> items]
VarValue(keys) == [t |-> "variables", keys |-> keys]
NilValue == [t |-> "nil", z |-> 0]

TypeName(v) == v.t

ENTITY_PATH_SEP == "::"

RECURSIVE Join(_, _)
Join(parts, sep) ==
    IF Len(parts) = 0 THEN ""
    ELSE IF Len(parts) = 1 THEN parts[1]
    ELSE parts[1] \o sep \o Join(Tail(parts), sep)

NewEntityValue(kindParts, id) == Append(kindParts, id)

EntityType(v1) == Join(SubSeq(v1, 1, Len(v1) - 1), ENTITY_PATH_SEP)

EntityId(v1) == v1[Len(v1)]

EntityString(v1) == EntityType(v1) \o ENTITY_PATH_SEP \o "\"" \o EntityId(v1) \o "\""

\* Results of operators that return (value, error)
Ok(v) == [ok |-> TRUE, val |-> v, err |-> ""]
Fail(msg) == [ok |-> FALSE, val |-> NilValue, err |-> msg]

ErrTypeMismatch == "type mismatch"
ErrEvalError == "eval error"
ErrValueNotFound == "value not found in store"
ErrUnsupportedType == "unsupported type in store generation"

\* ------------------------------------------------------------------------
\* Stores (schema/entity_store.go)

EmptyStore == [items |-> <<>>, kind |-> "empty"]
EntityStore(items) == [items |-> items, kind |-> "entity"]

\* items is a function from the canonical string of an entity to its item
\* values holds the names of the attributes of the entity
EntityStoreItem(entity, parents, keys) ==
    [entity |-> entity, parents |-> parents, values |-> VarValue(keys)]

RECURSIVE GetParentsLoop(_, _, _)
GetParentsLoop(items, seen, todo) ==
    IF Len(todo) = 0 THEN seen
    ELSE LET first == Head(todo)
             rest == Tail(todo)
             lookup == EntityString(first)
         IN IF \E s \in seen : EntityString(s) = lookup
            THEN GetParentsLoop(items, seen, rest)
            ELSE IF lookup \notin DOMAIN items
                 THEN GetParentsLoop(items, seen \cup {first}, rest)
                 ELSE GetParentsLoop(items, seen \cup {first}, rest \o items[lookup].parents)

EntityStore_GetParents(st, key) == GetParentsLoop(st.items, {}, <<key>>)

EmptyStore_GetParents(st, key) == {}

\* Store.GetParents dispatched on the concrete store type
\* Store.Get: the empty store answers (nil, nil); the entity store looks up
\* the entity only and answers its attribute record
EmptyStore_Get(st, key) == Ok(NilValue)

EntityStore_Get(st, key) ==
    IF EntityString(key) \notin DOMAIN st.items THEN Fail(ErrValueNotFound)
    ELSE Ok(st.items[EntityString(key)].values)

Get(st, key) ==
    IF st.kind = "empty" THEN EmptyStore_Get(st, key) ELSE EntityStore_Get(st, key)

GetParents(st, key) ==
    IF st.kind = "empty" THEN EmptyStore_GetParents(st, key)
    ELSE EntityStore_GetParents(st, key)

\* ------------------------------------------------------------------------
\* Operators on values (engine/value.go)

RECURSIVE OpEqual(_, _)
SetValue_OpEqual_Elem(val, items2) ==
    \* the inner loop: an equal element ends it, an error before that aborts
    LET hits == {j \in 1..Len(items2) : OpEqual(val, items2[j]).ok /\ OpEqual(val, items2[j]).val.b}
        errs == {j \in 1..Len(items2) : ~OpEqual(val, items2[j]).ok}
        firstOf(S) == CHOOSE j \in S : \A k \in S : j <= k
    IN IF hits # {} /\ (errs = {} \/ firstOf(hits) < firstOf(errs)) THEN "found"
       ELSE IF errs # {} THEN "error"
       ELSE "missing"

OpEqual(v1, v2) ==
    CASE v1.t = "boolean" ->
            IF v2.t # "boolean" THEN Fail(ErrTypeMismatch) ELSE Ok(BoolValue(v1.b = v2.b))
      [] v1.t = "long" ->
            IF v2.t # "long" THEN Fail(ErrTypeMismatch) ELSE Ok(BoolValue(v1.n = v2.n))
      [] v1.t = "string" ->
            IF v2.t # "string" THEN Fail(ErrTypeMismatch) ELSE Ok(BoolValue(v1.s = v2.s))
      [] v1.t = "entity" ->
            IF v2.t # "entity" THEN Fail(ErrTypeMismatch)
            ELSE IF Len(v1.e) # Len(v2.e) THEN Ok(BoolValue(FALSE))
            ELSE Ok(BoolValue(\A idx \in 1..Len(v1.e) : v2.e[idx] = v1.e[idx]))
      [] v1.t = "set" ->
            IF v2.t # "set" THEN Fail(ErrTypeMismatch)
            ELSE IF Len(v1.items) # Len(v2.items) THEN Ok(BoolValue(FALSE))
            ELSE LET outcome(i) == SetValue_OpEqual_Elem(v1.items[i], v2.items)
                     stops == {i \in 1..Len(v1.items) : outcome(i) # "found"}
                 IN IF stops = {} THEN Ok(BoolValue(TRUE))
                    ELSE LET i0 == CHOOSE i \in stops : \A k \in stops : i <= k
                         IN IF outcome(i0) = "error" THEN Fail(ErrTypeMismatch)
                            ELSE Ok(BoolValue(FALSE))
      [] v1.t = "identifier" ->
            IF v2.t # "identifier" THEN Fail(ErrTypeMismatch) ELSE Ok(BoolValue(v1.s = v2.s))
      [] v1.t = "variables" -> Ok(BoolValue(FALSE))
      [] OTHER -> Fail(ErrTypeMismatch)

BoolValue_OpLand(v1, input) ==
    IF input.t # "boolean" THEN Fail(ErrTypeMismatch)
    ELSE Ok(BoolValue(v1.b /\ input.b))

BoolValue_OpLor(v1, input) ==
    IF input.t # "boolean" THEN Fail(ErrTypeMismatch)
    ELSE Ok(BoolValue(v1.b \/ input.b))

BoolValue_OpNot(v1) == Ok(BoolValue(~v1.b))

IntValue_OpLss(v1, input) ==
    IF input.t # "long" THEN Fail(ErrTypeMismatch) ELSE Ok(BoolValue(v1.n < input.n))

IntValue_OpLeq(v1, input) ==
    IF input.t # "long" THEN Fail(ErrTypeMismatch) ELSE Ok(BoolValue(v1.n <= input.n))

IntValue_OpUnaryMinus(v1) == Ok(IntValue(0 - v1.n))

IntValue_OpAdd(v1, input) ==
    IF input.t # "long" THEN Fail(ErrTypeMismatch) ELSE Ok(IntValue(v1.n + input.n))

IntValue_OpSub(v1, input) ==
    IF input.t # "long" THEN Fail(ErrTypeMismatch) ELSE Ok(IntValue(v1.n - input.n))

IntValue_OpMul(v1, input) ==
    IF input.t # "long" THEN Fail(ErrTypeMismatch) ELSE Ok(IntValue(v1.n * input.n))

\* Go's / and % on integers: the quotient is truncated toward zero, the
\* remainder has the sign of the dividend, and a zero divisor is a run-time
\* panic
Abs(n) == IF n < 0 THEN 0 - n ELSE n

GoQuo(a, b) ==
    IF (a < 0) = (b < 0) THEN Abs(a) \div Abs(b) ELSE 0 - (Abs(a) \div Abs(b))

GoRem(a, b) == a - b * GoQuo(a, b)

PanicDivide == Fail("panic: runtime error: integer divide by zero")

IntValue_OpQuo(v1, input) ==
    IF input.t # "long" THEN Fail(ErrTypeMismatch)
    ELSE IF input.n = 0 THEN PanicDivide
    ELSE Ok(IntValue(GoQuo(v1.n, input.n)))

IntValue_OpRem(v1, input) ==
    IF input.t # "long" THEN Fail(ErrTypeMismatch)
    ELSE IF input.n = 0 THEN PanicDivide
    ELSE Ok(IntValue(GoRem(v1.n, input.n)))

\* EntityValue.OpIn: the right operand's canonical strings against the
\* canonical strings of what the store returns for v1
EntityValue_OpIn(v1, input, st) ==
    LET parents == GetParents(st, v1.e)
        lookFor(entities) ==
            Ok(BoolValue(\E item \in parents : EntityString(item) \in entities))
    IN IF input.t = "entity" THEN lookFor({EntityString(input.e)})
       ELSE IF input.t = "set"
            THEN IF \E i \in 1..Len(input.items) : input.items[i].t # "entity"
                 THEN Fail(ErrTypeMismatch)
                 ELSE lookFor({EntityString(input.items[i].e) : i \in 1..Len(input.items)})
       ELSE Fail(ErrTypeMismatch)

\* EntityValue.OpIs: a trailing empty component of the right operand is
\* dropped, then every remaining component is compared with v1's component
\* at the same index
\* A string is the sequence of its characters where `like` reads it
GLOB == "*"

RECURSIVE GlobSplit(_, _, _, _, _)
\* The loop of Glob over the characters of the pattern: the parts between
\* unescaped stars
GlobSplit(pattern, i, parts, accum, inEscape) ==
    IF i > Len(pattern)
    THEN Append(parts, IF inEscape THEN Append(accum, "\\") ELSE accum)
    ELSE IF inEscape THEN GlobSplit(pattern, i + 1, parts, Append(accum, pattern[i]), FALSE)
    ELSE IF pattern[i] = GLOB THEN GlobSplit(pattern, i + 1, Append(parts, accum), <<>>, FALSE)
    ELSE IF pattern[i] = "\\" THEN GlobSplit(pattern, i + 1, parts, accum, TRUE)
    ELSE GlobSplit(pattern, i + 1, parts, Append(accum, pattern[i]), FALSE)

\* strings.Index: the zero-based place of the first occurrence, -1 if none
Index(str, substr) ==
    IF \A k \in 0..(Len(str) - Len(substr)) : SubSeq(str, k + 1, k + Len(substr)) # substr
    THEN -1
    ELSE CHOOSE k \in 0..(Len(str) - Len(substr)) :
            /\ SubSeq(str, k + 1, k + Len(substr)) = substr
            /\ \A h \in 0..(k - 1) : SubSeq(str, h + 1, h + Len(substr)) # substr

HasSuffix(str, suffix) ==
    /\ Len(str) >= Len(suffix)
    /\ SubSeq(str, Len(str) - Len(suffix) + 1, Len(str)) = suffix

\* The check of the first section: `!leadingGlob && idx != 0` fails the match
LeadingMatches_Anywhere(leadingGlob, idx) == leadingGlob \/ idx >= 0

LeadingMatches(leadingGlob, idx) == leadingGlob \/ idx = 0

RECURSIVE GlobLoop(_, _, _)
RECURSIVE GlobStep(_, _, _, _)
\* The loop over the leading parts (i counts from 0), then the last section
GlobLoop(parts, subj, i) ==
    IF i >= Len(parts) - 1
    THEN parts[Len(parts)] = <<>> \/ HasSuffix(subj, parts[Len(parts)])
    ELSE GlobStep(parts, subj, i, Index(subj, parts[i + 1]))

GlobStep(parts, subj, i, idx) ==
    IF i = 0 /\ ~LeadingMatches(parts[1] = <<>>, idx) THEN FALSE
    ELSE IF i # 0 /\ idx < 0 THEN FALSE
    ELSE GlobLoop(parts, SubSeq(subj, idx + Len(parts[i + 1]) + 1, Len(subj)), i + 1)

GlobParts(subj, parts) ==
    IF Len(parts) = 1 THEN subj = parts[1] ELSE GlobLoop(parts, subj, 0)

Glob(pattern, subj) ==
    IF pattern = <<>> THEN subj = pattern
    ELSE IF pattern = <<GLOB>> THEN TRUE
    ELSE GlobParts(subj, GlobSplit(pattern, 1, <<>>, <<>>, FALSE))

StrValue_OpLike(v1, input) ==
    IF input.t # "string" THEN Fail(ErrTypeMismatch)
    ELSE Ok(BoolValue(Glob(input.s, v1.s)))

\* valueAsString: the key of `has` is a string or an identifier
valueAsString(input) ==
    IF input.t \in {"string", "identifier"} THEN Ok(input) ELSE Fail(ErrEvalError)

\* An error of the store other than ErrValueNotFound is passed on
EntityValue_OpHas(v1, input, st) ==
    IF ~valueAsString(input).ok THEN valueAsString(input)
    ELSE IF Get(st, v1.e).ok THEN Ok(BoolValue(TRUE))
    ELSE IF Get(st, v1.e).err = ErrValueNotFound THEN Ok(BoolValue(FALSE))
    ELSE Get(st, v1.e)

VarValue_OpHas(v1, input) ==
    IF input.t \in {"string", "identifier"} THEN Ok(BoolValue(input.s \in v1.keys))
    ELSE Fail(ErrUnsupportedType)

\* NewVarValue: a record value with its children
NewVarValue(data) == [t |-> "variables", keys |-> DOMAIN data, children |-> data]

EntityValue_OpLookup(v1, input, st) ==
    IF ~valueAsString(input).ok THEN valueAsString(input)
    ELSE IF Get(st, v1.e).ok THEN Get(st, v1.e)
    ELSE IF Get(st, v1.e).err = ErrValueNotFound THEN Get(st, v1.e)
    ELSE Fail("value not found")

VarValue_OpLookup(v1, input) ==
    IF input.t \in {"string", "identifier"}
    THEN (IF input.s \notin v1.keys THEN Fail(ErrValueNotFound)
          ELSE Ok(v1.children[input.s]))
    ELSE Fail(ErrUnsupportedType)

EntityValue_OpIs(v1, input) ==
    IF input.t # "entity" THEN Fail(ErrTypeMismatch)
    ELSE LET l == Len(input.e)
             rval == IF input.e[l] = "" THEN SubSeq(input.e, 1, l - 1) ELSE input.e
         IN Ok(BoolValue(\A idx \in 1..Len(rval) :
                            idx <= Len(v1.e) /\ rval[idx] = v1.e[idx]))

\* ------------------------------------------------------------------------
\* AST nodes (engine/ast.go)

ValueNode(v) == [v |-> v, k |-> "value"]
Reference(src) == [k |-> "ref", src |-> src]
Identifier(name) == [k |-> "ident", name |-> name]
UnaryExpr(op, left) == [k |-> "unary", op |-> op, left |-> left]
BinaryExpr(op, left, right) == [k |-> "binary", op |-> op, left |-> left, right |-> right]
IfExpr(c, t, e) == [k |-> "if", If |-> c, Then |-> t, Else |-> e]
ListExpr(exprs) == [k |-> "list", exprs |-> exprs]
\* The nil node
NilExpr == [k |-> "nil"]
\* Self = NilExpr stands for the nil receiver of a plain function
FunctionCall(name, self, args) == [k |-> "call", name |-> name, self |-> self, args |-> args]

trueValue == ValueNode(BoolValue(TRUE))
falseValue == ValueNode(BoolValue(FALSE))

PolicyCondition(cond, expr) == [Condition |-> cond, Expr |-> expr]
Policy(id, effect, head, conds, annotations) ==
    [If |-> head, Id |-> id, Effect |-> effect, Conditions |-> conds,
     Annotations |-> annotations]

\* ------------------------------------------------------------------------
\* The evaluator (engine evalNode methods)

\* An evaluation returns (value, error); visited lists the nodes whose
\* evalNode ran, in the order the calls started.
Done(n, r, visited) == [ok |-> r.ok, val |-> r.val, err |-> r.err, visited |-> visited]

asBool(v) == IF v.t # "boolean" THEN Fail(ErrEvalError) ELSE Ok(v)

RuntimeRequest(st, req) ==
    [Store |-> st, Context |-> VarValue({}),
     principalValue |-> req.Principal,
     resourceValue |-> req.Resource,
     actionValue |-> req.Action]

Reference_evalNode(n, rt) ==
    CASE n.src = "context" -> Ok(rt.Context)
      [] n.src = "principal" -> Ok(EntityValue(rt.principalValue))
      [] n.src = "action" -> Ok(EntityValue(rt.actionValue))
      [] n.src = "resource" -> Ok(EntityValue(rt.resourceValue))
      [] OTHER -> Fail("not implemented")

\* The switch of BinaryExpr.evalNode for the operators whose right operand
\* is evaluated before the switch
BinaryExpr_apply(op, left, right, rt) ==
    CASE op \in {"==", "!="} ->
            LET r == OpEqual(left, right)
            IN IF ~r.ok THEN r
               ELSE IF op # "!=" THEN r
               ELSE Ok(BoolValue(~r.val.b))
      [] op \in {"+", "-", "*", "/", "%"} ->
            IF left.t # "long" THEN Fail(ErrEvalError)
            ELSE (CASE op = "+" -> IntValue_OpAdd(left, right)
                    [] op = "-" -> IntValue_OpSub(left, right)
                    [] op = "*" -> IntValue_OpMul(left, right)
                    [] op = "/" -> IntValue_OpQuo(left, right)
                    [] op = "%" -> IntValue_OpRem(left, right))
      [] op = "<" ->
            IF left.t # "long" THEN Fail(ErrEvalError) ELSE IntValue_OpLss(left, right)
      [] op = "<=" ->
            IF left.t # "long" THEN Fail(ErrEvalError) ELSE IntValue_OpLeq(left, right)
      [] op = ">=" ->
            IF right.t # "long" THEN Fail(ErrEvalError) ELSE IntValue_OpLeq(right, left)
      [] op = ">" ->
            IF right.t # "long" THEN Fail(ErrEvalError) ELSE IntValue_OpLss(right, left)
      [] op = "is" ->
            IF left.t # "entity" THEN Fail(ErrEvalError) ELSE EntityValue_OpIs(left, right)
      [] op = "in" ->
            IF left.t # "entity" THEN Fail(ErrEvalError)
            ELSE EntityValue_OpIn(left, right, rt.Store)
      [] op = "like" ->
            IF left.t # "string" THEN Fail(ErrEvalError) ELSE StrValue_OpLike(left, right)
      [] op = "has" ->
            IF left.t = "entity" THEN EntityValue_OpHas(left, right, rt.Store)
            ELSE IF left.t = "variables" THEN VarValue_OpHas(left, right)
            ELSE Fail(ErrEvalError)
      [] op = "." ->
            IF left.t = "entity" THEN EntityValue_OpLookup(left, right, rt.Store)
            ELSE IF left.t = "variables" THEN VarValue_OpLookup(left, right)
            ELSE Fail(ErrEvalError)
      [] OTHER -> Fail(ErrEvalError)

\* The first short-circuit test of the OpLand/OpLor case returns left when
\* the operator is OpLor and left is true
ShortCircuitLor(op, lval) == op = "||" /\ lval

\* The second short-circuit test compares the operator with OpAdd
ShortCircuitLand(op, lval) == op = "+" /\ ~lval

\* ------------------------------------------------------------------------
\* Functions (engine functionTable)

\* A Go value that can be the key of a map: slices (entities, sets) cannot,
\* and using one as a key panics
Hashable(v) == v.t \notin {"entity", "set"}

Panic == Fail("panic: runtime error: hash of unhashable type")

\* The loop of containsAll over the receiver's items; looking is the set
\* of keys of the map
RECURSIVE containsAll_loop(_, _, _)
containsAll_found(lval, i, looking) ==
    IF ~Hashable(lval[i]) THEN Panic
    ELSE IF looking \ {lval[i]} = {} THEN Ok(BoolValue(TRUE))
    ELSE containsAll_loop(lval, i + 1, looking \ {lval[i]})

containsAll_loop(lval, i, looking) ==
    IF i > Len(lval) THEN Ok(BoolValue(FALSE))
    ELSE IF \E look \in looking : OpEqual(lval[i], look).ok /\ OpEqual(lval[i], look).val.b
    THEN containsAll_found(lval, i, looking)
    ELSE IF looking = {} THEN Ok(BoolValue(TRUE))
    ELSE containsAll_loop(lval, i + 1, looking)

containsAll(left, args) ==
    IF Len(args) # 1 THEN Fail(ErrTypeMismatch)
    ELSE IF left.t # "set" THEN Fail(ErrTypeMismatch)
    ELSE IF args[1].t # "set" THEN Fail(ErrTypeMismatch)
    ELSE IF \E i \in 1..Len(args[1].items) : ~Hashable(args[1].items[i]) THEN Panic
    ELSE containsAll_loop(left.items, 1, {args[1].items[i] : i \in 1..Len(args[1].items)})

\* ------------------------------------------------------------------------
\* IP addresses (NewIpValue over net.ParseIP, IP.To4).  An address text is
\* a sequence of characters, an address its 16 bytes; <<>> stands for nil.
\* Texts with a prefix length (parsed by net.ParseCIDR) are not among the
\* texts parsed here.

IpValue(addr) == [t |-> "ipaddr", addr |-> addr]

Num(n, c, ok) == [n |-> n, ok |-> ok, c |-> c]

decVal(ch) ==
    CASE ch = "0" -> 0 [] ch = "1" -> 1 [] ch = "2" -> 2 [] ch = "3" -> 3 [] ch = "4" -> 4
      [] ch = "5" -> 5 [] ch = "6" -> 6 [] ch = "7" -> 7 [] ch = "8" -> 8 [] ch = "9" -> 9
      [] OTHER -> 0 - 1

hexVal(ch) ==
    CASE ch \in {"a", "A"} -> 10 [] ch \in {"b", "B"} -> 11 [] ch \in {"c", "C"} -> 12
      [] ch \in {"d", "D"} -> 13 [] ch \in {"e", "E"} -> 14 [] ch \in {"f", "F"} -> 15
      [] OTHER -> decVal(ch)

big == 16777215

\* dtoi and xtoi: the decimal (hexadecimal) number at offset off of s, the
\* number of characters it takes, and whether there is one
RECURSIVE dtoi(_, _, _, _)
dtoi(s, off, n, c) ==
    IF off + c > Len(s) \/ decVal(s[off + c]) < 0 THEN Num(n, c, c > 0)
    ELSE IF n * 10 + decVal(s[off + c]) >= big THEN Num(big, c, FALSE)
    ELSE dtoi(s, off, n * 10 + decVal(s[off + c]), c + 1)

RECURSIVE xtoi(_, _, _, _)
xtoi(s, off, n, c) ==
    IF off + c > Len(s) \/ hexVal(s[off + c]) < 0 THEN Num(n, c, c > 0)
    ELSE IF n * 16 + hexVal(s[off + c]) >= big THEN Num(0, c, FALSE)
    ELSE xtoi(s, off, n * 16 + hexVal(s[off + c]), c + 1)

\* parseIPv4 from offset off: four decimal fields of at most 255 without
\* leading zeros, separated by dots, and nothing after them
RECURSIVE parseIPv4_loop(_, _, _, _)
parseIPv4_field(s, start, i, p, d) ==
    IF ~d.ok \/ d.n > 255 THEN <<>>
    ELSE IF d.c > 1 /\ s[start] = "0" THEN <<>>
    ELSE parseIPv4_loop(s, start + d.c, i + 1, Append(p, d.n))

parseIPv4_loop(s, off, i, p) ==
    IF i = 4 THEN (IF off > Len(s) THEN p ELSE <<>>)
    ELSE IF off > Len(s) THEN <<>>
    ELSE IF i = 0 THEN parseIPv4_field(s, off, i, p, dtoi(s, off, 0, 0))
    ELSE IF s[off] # "." THEN <<>>
    ELSE parseIPv4_field(s, off + 1, i, p, dtoi(s, off + 1, 0, 0))

parseIPv4(s, off) == parseIPv4_loop(s, off, 0, <<>>)

Zeros(n) == [i \in 1..n |-> 0]

\* net.IPv4: the 16-byte form of a four-byte address
IPv4(p) == Zeros(10) \o <<255, 255>> \o p

\* The end of parseIPv6: i bytes are written, the text is read up to off,
\* the ellipsis (if any) stands at byte index ellipsis
parseIPv6_end(s, off, ip, ellipsis) ==
    IF off <= Len(s) THEN <<>>
    ELSE IF Len(ip) < 16
    THEN (IF ellipsis < 0 THEN <<>>
          ELSE SubSeq(ip, 1, ellipsis) \o Zeros(16 - Len(ip))
                  \o SubSeq(ip, ellipsis + 1, Len(ip)))
    ELSE IF ellipsis >= 0 THEN <<>>
    ELSE ip

RECURSIVE parseIPv6_loop(_, _, _, _)
\* The group is followed by '.': the rest of the text is an IPv4 address
parseIPv6_embedded(s, off, ip, ellipsis, ip4) ==
    IF ellipsis < 0 /\ Len(ip) # 12 THEN <<>>
    ELSE IF Len(ip) + 4 > 16 THEN <<>>
    ELSE IF ip4 = <<>> THEN <<>>
    ELSE parseIPv6_end(s, Len(s) + 1, ip \o ip4, ellipsis)

\* After a group: the end of the text, or ':' and more text, or '::'
parseIPv6_next(s, off, ip, ellipsis) ==
    IF off > Len(s) THEN parseIPv6_end(s, off, ip, ellipsis)
    ELSE IF s[off] # ":" \/ off = Len(s) THEN <<>>
    ELSE IF s[off + 1] = ":"
    THEN (IF ellipsis >= 0 THEN <<>>
          ELSE IF off + 1 = Len(s) THEN parseIPv6_end(s, off + 2, ip, Len(ip))
          ELSE parseIPv6_loop(s, off + 2, ip, Len(ip)))
    ELSE parseIPv6_loop(s, off + 1, ip, ellipsis)

parseIPv6_group(s, off, ip, ellipsis, x) ==
    IF ~x.ok \/ x.n > 65535 THEN <<>>
    ELSE IF off + x.c <= Len(s) /\ s[off + x.c] = "."
    THEN parseIPv6_embedded(s, off, ip, ellipsis, parseIPv4(s, off))
    ELSE parseIPv6_next(s, off + x.c, ip \o <<x.n \div 256, x.n % 256>>, ellipsis)

parseIPv6_loop(s, off, ip, ellipsis) ==
    IF Len(ip) >= 16 THEN parseIPv6_end(s, off, ip, ellipsis)
    ELSE parseIPv6_group(s, off, ip, ellipsis, xtoi(s, off, 0, 0))

parseIPv6(s) ==
    IF Len(s) >= 2 /\ s[1] = ":" /\ s[2] = ":"
    THEN (IF Len(s) = 2 THEN Zeros(16) ELSE parseIPv6_loop(s, 3, <<>>, 0))
    ELSE parseIPv6_loop(s, 1, <<>>, 0 - 1)

\* net.ParseIP: the first '.' or ':' of the text decides the family
ParseIP(s) ==
    LET marks == {i \in 1..Len(s) : s[i] \in {".", ":"}}
    IN IF marks = {} THEN <<>>
       ELSE IF s[CHOOSE i \in marks : \A j \in marks : i <= j] = "."
       THEN (IF parseIPv4(s, 1) = <<>> THEN <<>> ELSE IPv4(parseIPv4(s, 1)))
       ELSE parseIPv6(s)

\* IP.To4: the last four bytes of a 16-byte address that starts with ten
\* zero bytes and two bytes 255, nil otherwise
To4(ip) ==
    IF Len(ip) = 4 THEN ip
    ELSE IF Len(ip) = 16 /\ SubSeq(ip, 1, 12) = Zeros(10) \o <<255, 255>>
    THEN SubSeq(ip, 13, 16)
    ELSE <<>>

NewIpValue(arg) ==
    IF ParseIP(arg) # <<>> THEN Ok(IpValue(ParseIP(arg))) ELSE Fail(ErrTypeMismatch)

asNetIp(input) ==
    IF input.t = "nil" THEN Fail(ErrTypeMismatch)
    ELSE IF input.t # "ipaddr" THEN Fail(ErrTypeMismatch)
    ELSE Ok(input)

ip(left, args) ==
    IF Len(args) # 1 THEN Fail(ErrTypeMismatch)
    ELSE IF args[1].t # "string" THEN Fail(ErrTypeMismatch)
    ELSE NewIpValue(args[1].s)

isIpv4(left, args) ==
    IF Len(args) # 0 THEN Fail(ErrTypeMismatch)
    ELSE IF ~asNetIp(left).ok THEN asNetIp(left)
    ELSE Ok(BoolValue(To4(left.addr) # <<>>))

isIpv6(left, args) ==
    IF Len(args) # 0 THEN Fail(ErrTypeMismatch)
    ELSE Ok(BoolValue(TRUE))

functionTable(name, left, args) ==
    CASE name = "containsAll" -> containsAll(left, args)
      [] name = "ip" -> ip(left, args)
      [] name = "isIpv4" -> isIpv4(left, args)
      [] name = "isIpv6" -> isIpv6(left, args)
      [] OTHER -> Fail(ErrEvalError)

RECURSIVE evalNode(_, _)
RECURSIVE ListExpr_evalLoop(_, _, _, _, _)
ListExpr_evalLoop(exprs, rt, i, values, visited) ==
    IF i > Len(exprs) THEN Done(exprs, Ok(SetValue(values)), visited)
    ELSE LET val == evalNode(exprs[i], rt)
         IN IF ~val.ok THEN Done(exprs, val, visited \o val.visited)
            ELSE ListExpr_evalLoop(exprs, rt, i + 1, Append(values, val.val),
                                   visited \o val.visited)

UnaryExpr_evalNode(n, rt) ==
    LET result == evalNode(n.left, rt)
        vis == <<n>> \o result.visited
    IN IF ~result.ok THEN Done(n, result, vis)
       ELSE CASE n.op = "-" ->
                    IF result.val.t # "long" THEN Done(n, Fail(ErrEvalError), vis)
                    ELSE Done(n, IntValue_OpUnaryMinus(result.val), vis)
              [] n.op = "!" ->
                    IF result.val.t # "boolean" THEN Done(n, Fail(ErrEvalError), vis)
                    ELSE Done(n, BoolValue_OpNot(result.val), vis)
              [] OTHER -> Done(n, Fail("unknown unary op"), vis)

BinaryExpr_evalNode(n, rt) ==
    LET left == evalNode(n.left, rt)
        visL == <<n>> \o left.visited
    IN IF ~left.ok THEN Done(n, left, visL)
       ELSE IF n.op \notin {"&&", "||"}
       THEN LET r == evalNode(n.right, rt)
                visR == visL \o r.visited
            IN IF ~r.ok THEN Done(n, r, visR)
               ELSE Done(n, BinaryExpr_apply(n.op, left.val, r.val, rt), visR)
       ELSE IF left.val.t # "boolean" THEN Done(n, Fail(ErrEvalError), visL)
       ELSE LET lval == left.val.b
            IN IF ShortCircuitLor(n.op, lval) THEN Done(n, Ok(left.val), visL)
               ELSE IF ShortCircuitLand(n.op, lval) THEN Done(n, Ok(left.val), visL)
               ELSE LET right == evalNode(n.right, rt)
                        visR == visL \o right.visited
                    IN IF ~right.ok THEN Done(n, right, visR)
                       ELSE IF n.op = "&&"
                            THEN Done(n, BoolValue_OpLand(left.val, right.val), visR)
                            ELSE Done(n, BoolValue_OpLor(left.val, right.val), visR)

\* The receiver, then the arguments in order, then the handler
FunctionCall_handler(n, left, args) ==
    IF ~args.ok THEN args
    ELSE Done(n, functionTable(n.name, left.val, args.val.items), args.visited)

FunctionCall_args(n, rt, left) ==
    IF ~left.ok THEN Done(n, left, <<n>> \o left.visited)
    ELSE FunctionCall_handler(n, left,
                              ListExpr_evalLoop(n.args, rt, 1, <<>>, <<n>> \o left.visited))

FunctionCall_evalNode(n, rt) ==
    FunctionCall_args(n, rt, IF n.self = NilExpr THEN Done(n, Ok(NilValue), <<>>)
                             ELSE evalNode(n.self, rt))

IfExpr_evalNode(n, rt) ==
    LET cond == evalNode(n.If, rt)
        visC == <<n>> \o cond.visited
    IN IF ~cond.ok THEN Done(n, cond, visC)
       ELSE IF ~asBool(cond.val).ok THEN Done(n, asBool(cond.val), visC)
       ELSE LET expr == IF cond.val.b THEN n.Then ELSE n.Else
                res == evalNode(expr, rt)
            IN Done(n, res, visC \o res.visited)

evalNode(n, rt) ==
    CASE n.k = "value" -> Done(n, Ok(n.v), <<n>>)
      [] n.k = "ref" -> Done(n, Reference_evalNode(n, rt), <<n>>)
      [] n.k = "ident" -> Done(n, Ok([t |-> "identifier", s |-> n.name]), <<n>>)
      [] n.k = "unary" -> UnaryExpr_evalNode(n, rt)
      [] n.k = "binary" -> BinaryExpr_evalNode(n, rt)
      [] n.k = "if" -> IfExpr_evalNode(n, rt)
      [] n.k = "call" -> FunctionCall_evalNode(n, rt)
      [] n.k = "list" ->
            LET r == ListExpr_evalLoop(n.exprs, rt, 1, <<>>, <<n>>)
            IN Done(n, r, r.visited)

\* ------------------------------------------------------------------------
\* Policy evaluation (engine Policy.evalNode, PolicyList.evalNode)

Deny == "Deny"
Allow == "Allow"

policyResult(decision, evaluated, permit, forbid, matched) ==
    [Decision |-> decision, Evaluated |-> evaluated, Permit |-> permit,
     Forbid |-> forbid, RulesMatched |-> matched]

\* (result, error) of the policy-level evalNode methods
PolOk(res) == [ok |-> TRUE, err |-> "", res |-> res]
PolFail(msg) == [ok |-> FALSE, err |-> msg, res |-> policyResult(Deny, FALSE, FALSE, FALSE, <<>>)]

\* PolicyCondition.evalNode after n.Expr.evalNode returned, without the
\* inversion of `unless`
PolicyCondition_result_NoInvert(c, result) ==
    IF ~result.ok THEN Fail(result.err)
    ELSE IF ~asBool(result.val).ok THEN Fail(ErrEvalError)
    ELSE Ok(BoolValue(result.val.b))

\* PolicyCondition.evalNode after n.Expr.evalNode returned (result, err)
PolicyCondition_result(c, result) ==
    IF ~result.ok THEN Fail(result.err)
    ELSE IF ~asBool(result.val).ok THEN Fail(ErrEvalError)
    ELSE IF c.Condition = "when" THEN Ok(BoolValue(result.val.b))
    ELSE Ok(BoolValue(~result.val.b))

PolicyCondition_evalNode(c, rt) == PolicyCondition_result(c, evalNode(c.Expr, rt))

\* The loop of Policy.evalNode over n.Conditions; Policy_conditionStep is
\* the loop body after item.evalNode returned (result, err)
RECURSIVE Policy_conditionLoop(_, _, _, _)
RECURSIVE Policy_conditionStep(_, _, _, _, _)
Policy_conditionStep(conds, rt, i, evalResult, result) ==
    IF ~result.ok THEN [ok |-> FALSE, err |-> result.err, evalResult |-> FALSE]
    ELSE IF ~asBool(result.val).ok
         THEN [ok |-> FALSE, err |-> ErrEvalError, evalResult |-> FALSE]
    ELSE Policy_conditionLoop(conds, rt, i + 1, evalResult /\ result.val.b)

Policy_conditionLoop(conds, rt, i, evalResult) ==
    IF i > Len(conds) THEN [ok |-> TRUE, err |-> "", evalResult |-> evalResult]
    ELSE Policy_conditionStep(conds, rt, i, evalResult,
                              PolicyCondition_evalNode(conds[i], rt))

\* The end of Policy.evalNode taking a condition error for a condition
\* that holds
Policy_effect_SwallowError(n, loop) ==
    PolOk(policyResult(Deny, TRUE,
                       (~loop.ok \/ loop.evalResult) /\ n.Effect = "permit",
                       (~loop.ok \/ loop.evalResult) /\ n.Effect = "forbid",
                       <<>>))

\* The end of Policy.evalNode: the condition loop returned an error, or
\* evalResult picks permit or forbid by the effect
Policy_effect(n, loop) ==
    IF ~loop.ok THEN PolFail(loop.err)
    ELSE PolOk(policyResult(Deny, TRUE,
                            loop.evalResult /\ n.Effect = "permit",
                            loop.evalResult /\ n.Effect = "forbid",
                            <<>>))

\* Policy.evalNode after n.If.evalNode returned (r, err)
Policy_head(n, rt, r) ==
    IF ~r.ok THEN PolFail(r.err)
    ELSE IF ~asBool(r.val).ok THEN PolFail(ErrEvalError)
    ELSE IF ~r.val.b THEN PolOk(policyResult(Deny, FALSE, FALSE, FALSE, <<>>))
    ELSE Policy_effect(n, Policy_conditionLoop(n.Conditions, rt, 1, TRUE))

Policy_evalNode(n, rt) == Policy_head(n, rt, evalNode(n.If, rt))

\* The Allow test without the forbid override
MustBeAllowed_IgnoreForbid(allowed, forbid) == allowed

\* "Must be explicitly allowed": the test that picks the Allow result
MustBeAllowed(allowed, forbid) == allowed /\ ~forbid

\* The loop of PolicyList.evalNode; PolicyList_step is the loop body after
\* item.evalNode returned (r, err)
RECURSIVE PolicyList_loop(_, _, _, _, _, _, _)
RECURSIVE PolicyList_step(_, _, _, _, _, _, _, _)
\* matches = append(matches, item.Id) for a policy that permits or forbids
appendMatch_Prepend(matches, res, id) ==
    IF res.Forbid \/ res.Permit THEN <<id>> \o matches ELSE matches

appendMatch(matches, res, id) ==
    IF res.Forbid \/ res.Permit THEN Append(matches, id) ELSE matches

\* The body of the loop for policy i, r being what item.evalNode returned;
\* the variant leaves the loop at the first policy that errors
PolicyList_step_BreakOnError(p, rt, i, allowed, forbid, matches, elist, r) ==
    IF ~r.ok
    THEN PolicyList_loop(p, rt, Len(p) + 1, allowed, forbid, matches,
                         Append(elist, [msg |-> r.err, policy |-> p[i].Id]))
    ELSE IF ~r.res.Evaluated
    THEN PolicyList_loop(p, rt, i + 1, allowed, forbid, matches, elist)
    ELSE PolicyList_loop(p, rt, i + 1,
                         allowed \/ r.res.Permit, forbid \/ r.res.Forbid,
                         appendMatch(matches, r.res, p[i].Id),
                         elist)

PolicyList_step(p, rt, i, allowed, forbid, matches, elist, r) ==
    IF ~r.ok
    THEN PolicyList_loop(p, rt, i + 1, allowed, forbid, matches,
                         Append(elist, [msg |-> r.err, policy |-> p[i].Id]))
    ELSE IF ~r.res.Evaluated
    THEN PolicyList_loop(p, rt, i + 1, allowed, forbid, matches, elist)
    ELSE PolicyList_loop(p, rt, i + 1,
                         allowed \/ r.res.Permit, forbid \/ r.res.Forbid,
                         appendMatch(matches, r.res, p[i].Id),
                         elist)

PolicyList_loop(p, rt, i, allowed, forbid, matches, elist) ==
    IF i > Len(p)
    THEN IF MustBeAllowed(allowed, forbid)
         THEN [err |-> elist, res |-> policyResult(Allow, FALSE, TRUE, FALSE, matches)]
         ELSE [err |-> elist, res |-> policyResult(Deny, FALSE, FALSE, TRUE, matches)]
    ELSE PolicyList_step(p, rt, i, allowed, forbid, matches, elist,
                         Policy_evalNode(p[i], rt))

\* err is the list joined by errors.Join; the empty list stands for nil
PolicyList_evalNode(p, rt) == PolicyList_loop(p, rt, 1, FALSE, FALSE, <<>>, <<>>)

\* ------------------------------------------------------------------------
\* Entry points (engine/interface.go, authorize.go)

NoResult == [Decision |-> "none", RulesMatched |-> FALSE, Reasons |-> <<>>]

Result(decision, rulesMatched, reasons) ==
    [Decision |-> decision, RulesMatched |-> rulesMatched, Reasons |-> reasons]

\* Eval after p.evalNode returned: (nil, err) when the policy list reported
\* an error, the Result otherwise
Eval_result(out) ==
    IF out.err # <<>> THEN [err |-> out.err, result |-> NoResult, nil |-> TRUE]
    ELSE [err |-> <<>>,
          result |-> Result(IF out.res.Permit THEN Allow ELSE Deny,
                            out.res.Evaluated, out.res.RulesMatched),
          nil |-> FALSE]

Eval(p, st, req) == Eval_result(PolicyList_evalNode(p, RuntimeRequest(st, req)))

\* IsAuthorizedDetail after engine.Eval returned (r, err)
IsAuthorizedDetail_result(r) ==
    IF r.err # <<>>
    THEN [err |-> r.err, nil |-> TRUE, IsAllowed |-> FALSE, Matches |-> <<>>]
    ELSE [err |-> <<>>, nil |-> FALSE,
          IsAllowed |-> r.result.Decision = Allow, Matches |-> r.result.Reasons]

IsAuthorizedDetail(p, st, req) == IsAuthorizedDetail_result(Eval(p, st, req))

\* IsAuthorized after IsAuthorizedDetail returned (detail, err)
IsAuthorized_result(detail) ==
    IF detail.err # <<>> THEN [err |-> detail.err, allowed |-> FALSE]
    ELSE [err |-> <<>>, allowed |-> detail.IsAllowed]

IsAuthorized(p, st, req) == IsAuthorized_result(IsAuthorizedDetail(p, st, req))

\* ------------------------------------------------------------------------
\* Scope parsing (parser.parsePrincipalResource, parser.parseAction)
\*
\* A scope clause of the source text is given by its tokens after the
\* variable name: an optional `is` target, an optional relation and its
\* operand.  isKind is "none" (no `is`), "path" (IDENT {:: IDENT}) or
\* "bad" (`is` followed by something that is not an identifier).

ScopeSrc(isKind, isPath, rel, ent) ==
    [isKind |-> isKind, isPath |-> isPath, rel |-> rel, ent |-> ent, set |-> <<>>]
ActionSrc(rel, ent, set) ==
    [isKind |-> "none", isPath |-> <<>>, rel |-> rel, ent |-> ent, set |-> set]

ConditionSrc(kind, expr) == [Condition |-> kind, Expr |-> expr]

PolicyStmt(effect, principal, action, resource, conds) ==
    [Effect |-> effect, Conditions |-> conds, Annotations |-> <<>>,
     Principal |-> principal, Resource |-> resource, Action |-> action]

\* '@' IDENT '(' STR ')' in front of a statement
AnnotationSpec(ident, value) == [Ident |-> ident, Value |-> value]

WithAnnotations(stmt, annotations) == [stmt EXCEPT !.Annotations = annotations]

\* cst.Variable; IsCheck = <<>> stands for the nil pointer, RelOp =
\* "ILLEGAL" for the zero token
Variable(name, isCheck, relOp, entities, setExpr, hasSet) ==
    [NameLit |-> name, IsCheck |-> isCheck, RelOp |-> relOp,
     Entities |-> entities, SetExpr |-> setExpr, HasSet |-> hasSet]

PathExpr(path) == [k |-> "Path", Path |-> path]

\* parseEntityOrPath(false, true) on the tokens after `is`
parseEntityOrPath(src) ==
    IF src.isKind = "path" THEN PathExpr(src.isPath) ELSE NilExpr

\* Returns the node and whether the parser recorded an error for the
\* clause: tokens the function leaves unconsumed make parseScope's expect
\* of the following ',' or ')' fail.
parsePrincipalResource(expect, src) ==
    LET node == Variable(expect, <<>>, "ILLEGAL", <<>>, <<>>, FALSE)
    IN IF src.rel = "none" /\ src.isKind = "none"
       THEN [err |-> FALSE, node |-> node]
       ELSE IF src.isKind # "none"
       THEN LET expr == parseEntityOrPath(src)
            IN IF expr # NilExpr
               THEN [err |-> src.rel # "none", node |-> node]
               ELSE IF expr.k # "Path"
               THEN [err |-> TRUE, node |-> node]
               ELSE [err |-> FALSE,
                     node |-> Variable(expect, Append(expr.Path, ""), src.rel,
                                       <<src.ent>>, <<>>, FALSE)]
       ELSE [err |-> FALSE,
             node |-> Variable(expect, <<>>, src.rel, <<src.ent>>, <<>>, FALSE)]

parseAction(src) ==
    LET node == Variable("action", <<>>, "ILLEGAL", <<>>, <<>>, FALSE)
    IN IF src.rel \notin {"in", "=="} THEN [err |-> FALSE, node |-> node]
       ELSE IF src.rel = "==" \/ src.set = <<>>
       THEN [err |-> FALSE,
             node |-> Variable("action", <<>>, src.rel, <<src.ent>>, <<>>, FALSE)]
       ELSE [err |-> FALSE,
             node |-> Variable("action", <<>>, src.rel, <<>>, src.set, TRUE)]

\* ------------------------------------------------------------------------
\* Lowering (cst ToAst methods)

EntityName_ToAst(parts) == ValueNode(EntityValue(parts))

SetExpr_ToAst(names) == ListExpr([i \in 1..Len(names) |-> EntityName_ToAst(names[i])])

\* ok = FALSE stands for the panic of unquote on the empty literal that
\* ends the path of an `is` check
Variable_ToAst(n) ==
    LET source == Reference(n.NameLit)
        right == IF n.HasSet THEN SetExpr_ToAst(n.SetExpr)
                 ELSE EntityName_ToAst(n.Entities[1])
        expr == IF n.RelOp # "ILLEGAL" THEN BinaryExpr(n.RelOp, source, right)
                ELSE trueValue
    IN IF n.IsCheck # <<>>
       THEN IF n.IsCheck[Len(n.IsCheck)] = ""
            THEN [ok |-> FALSE, expr |-> falseValue]
            ELSE [ok |-> TRUE,
                  expr |-> IfExpr(BinaryExpr("is", source, EntityName_ToAst(n.IsCheck)),
                                  expr, falseValue)]
       ELSE [ok |-> TRUE, expr |-> expr]

Condition_ToAst(c) == PolicyCondition(c.Condition, c.Expr)

\* The fold of the three lowered clauses into Policy.If
RECURSIVE ScopeFold(_, _, _)
ScopeFold(clauses, i, ifExpr) ==
    IF i > Len(clauses) THEN (IF ifExpr = NilExpr THEN trueValue ELSE ifExpr)
    ELSE LET c == clauses[i]
         IN IF c = trueValue THEN ScopeFold(clauses, i + 1, ifExpr)
            ELSE IF ifExpr = NilExpr THEN ScopeFold(clauses, i + 1, c)
            ELSE ScopeFold(clauses, i + 1, BinaryExpr("&&", c, ifExpr))

\* The map of annotations of a statement: annotations[ident] = value over
\* the statement's annotations in order, a later one replacing an earlier
\* one of the same name
annotationsOf(anns) ==
    {anns[i] : i \in {j \in 1..Len(anns) :
                        \A l \in (j + 1)..Len(anns) : anns[l].Ident # anns[j].Ident}}

PolicyStmt_ToAst(n) ==
    LET p == Variable_ToAst(n.Principal)
        a == Variable_ToAst(n.Action)
        r == Variable_ToAst(n.Resource)
    IN [ok |-> p.ok /\ a.ok /\ r.ok,
        policy |-> Policy("", n.Effect, ScopeFold(<<p.expr, r.expr, a.expr>>, 1, NilExpr),
                          [i \in 1..Len(n.Conditions) |-> Condition_ToAst(n.Conditions[i])],
                          annotationsOf(n.Annotations))]

\* The id of the policy lowered from statement idx (counted from 0)
policyId_Position(value, idx) == "policy" \o ToString(idx)

policyId(value, idx) ==
    IF \E an \in value.Annotations : an.Ident = "id"
    THEN (CHOOSE an \in value.Annotations : an.Ident = "id").Value
    ELSE "policy" \o ToString(idx)

\* File.ToAst once every statement is lowered: an error of a statement is
\* the error of the file, otherwise each policy gets its id
File_ToAst_result(lowered) ==
    [policies |-> [idx \in 1..Len(lowered) |->
                     [lowered[idx].policy
                         EXCEPT !.Id = policyId(lowered[idx].policy, idx - 1)]],
     ok |-> \A idx \in 1..Len(lowered) : lowered[idx].ok]

File_ToAst(stmts) ==
    File_ToAst_result([idx \in 1..Len(stmts) |-> PolicyStmt_ToAst(stmts[idx])])

\* parsePolicy: the scope of one statement of the source text
parsePolicy(src) ==
    LET p == parsePrincipalResource("principal", src.Principal)
        a == parseAction(src.Action)
        r == parsePrincipalResource("resource", src.Resource)
    IN [err |-> p.err \/ a.err \/ r.err,
        stmt |-> WithAnnotations(PolicyStmt(src.Effect, p.node, a.node, r.node, src.Conditions),
                                 src.Annotations)]

\* ParseRules: parse every statement, then lower the file
ParseRules_lowered(ast) ==
    IF ~ast.ok THEN [policies |-> <<>>, err |-> TRUE]
    ELSE [policies |-> ast.policies, err |-> FALSE]

ParseRules_parsed(parsed) ==
    IF \E i \in 1..Len(parsed) : parsed[i].err
    THEN [policies |-> <<>>, err |-> TRUE]
    ELSE ParseRules_lowered(File_ToAst([i \in 1..Len(parsed) |-> parsed[i].stmt]))

ParseRules(srcs) == ParseRules_parsed([i \in 1..Len(srcs) |-> parsePolicy(srcs[i])])

\* ------------------------------------------------------------------------
\* Inputs

alice == <<"User", "alice">>
bob == <<"User", "bob">>
admins == <<"Group", "admins">>
staff == <<"Group", "staff">>
pic == <<"Photo", "pic">>
trip == <<"Album", "trip">>
view == <<"Action", "view">>
edit == <<"Action", "edit">>
fooBarX == <<"Foo", "Bar", "x">>
fooX == <<"Foo", "x">>
fooBar == <<"Foo", "Bar">>

Entities == <<alice, bob, admins, staff, pic, trip, fooBarX, fooX, fooBar>>

\* Type paths as the right operand of `is`: the path plus an empty id
TypePaths == <<<<"User", "">>, <<"Group", "">>, <<"Foo", "">>, <<"Foo", "Bar", "">>,
               <<"Bar", "">>>>

Request(principal, action, resource) ==
    [Principal |-> principal, Resource |-> resource, Action |-> action]

Requests ==
    {Request(alice, view, pic), Request(bob, edit, pic),
     Request(admins, view, trip), Request(alice, view, trip)}

StoreOf(items) ==
    EntityStore([s \in {EntityString(items[i].entity) : i \in 1..Len(items)} |->
                    (CHOOSE it \in {items[i] : i \in 1..Len(items)} : EntityString(it.entity) = s)])

ChainStore ==
    StoreOf(<<EntityStoreItem(alice, <<admins>>, {"active"}),
              EntityStoreItem(admins, <<staff>>, {}),
              EntityStoreItem(pic, <<trip>>, {"owner"})>>)

CycleStore ==
    StoreOf(<<EntityStoreItem(alice, <<admins>>, {"active"}),
              EntityStoreItem(admins, <<alice, staff>>, {}),
              EntityStoreItem(bob, <<admins, admins>>, {}),
              EntityStoreItem(staff, <<>>, {})>>)

Stores == {EmptyStore, StoreOf(<<>>), ChainStore, CycleStore}

\* Expressions used as operands and as condition bodies
intOne == ValueNode(IntValue(1))
intTwo == ValueNode(IntValue(2))
typeError == BinaryExpr("<", intOne, trueValue)
principalIsAlice == BinaryExpr("==", Reference("principal"), ValueNode(EntityValue(alice)))
principalInAdmins == BinaryExpr("in", Reference("principal"), ValueNode(EntityValue(admins)))
oneLessTwo == BinaryExpr("<", intOne, intTwo)

Operands == <<trueValue, falseValue, intOne, typeError, principalIsAlice,
              UnaryExpr("!", trueValue), oneLessTwo,
              BinaryExpr("&&", falseValue, typeError),
              BinaryExpr("||", trueValue, typeError)>>

\* A set literal [a, b, ...] of integer and boolean literals
SetOf(values) == ListExpr([i \in 1..Len(values) |-> ValueNode(values[i])])

\* Operands of == and != : one literal of each variant and set literals
\* that differ in order, in repetition and in element variant
EqualOperands ==
    <<trueValue, intOne, intTwo, ValueNode(StrValue("a")), ValueNode(StrValue("1")),
      ValueNode(EntityValue(alice)), ValueNode(EntityValue(bob)),
      SetOf(<<IntValue(1), IntValue(2)>>), SetOf(<<IntValue(2), IntValue(1)>>),
      SetOf(<<IntValue(1), IntValue(1)>>), SetOf(<<IntValue(1)>>),
      SetOf(<<IntValue(1), IntValue(1), IntValue(2)>>),
      SetOf(<<IntValue(1), IntValue(2), IntValue(2)>>),
      SetOf(<<IntValue(1), IntValue(2), IntValue(3)>>),
      SetOf(<<IntValue(1), BoolValue(TRUE)>>), SetOf(<<BoolValue(TRUE), IntValue(1)>>),
      SetOf(<<>>)>>

NoScope == ScopeSrc("none", <<>>, "none", <<>>)
NoAction == ActionSrc("none", <<>>, <<>>)

Statements ==
    << \* permit(principal, action, resource);
       PolicyStmt("permit", NoScope, NoAction, NoScope, <<>>),
       \* forbid(principal, action, resource);
       PolicyStmt("forbid", NoScope, NoAction, NoScope, <<>>),
       \* permit(principal == User::"alice", action == Action::"view", resource in Album::"trip");
       PolicyStmt("permit", ScopeSrc("none", <<>>, "==", alice), ActionSrc("==", view, <<>>),
                  ScopeSrc("none", <<>>, "in", trip), <<>>),
       \* permit(principal is User, action, resource);
       PolicyStmt("permit", ScopeSrc("path", <<"User">>, "none", <<>>), NoAction, NoScope, <<>>),
       \* forbid(principal, action in [Action::"edit"], resource is Photo);
       PolicyStmt("forbid", NoScope, ActionSrc("in", <<>>, <<edit>>),
                  ScopeSrc("path", <<"Photo">>, "none", <<>>), <<>>),
       \* permit(principal, action, resource) when { 1 < true };
       PolicyStmt("permit", NoScope, NoAction, NoScope, <<ConditionSrc("when", typeError)>>),
       \* forbid(principal, action, resource) when { true && 1 };
       PolicyStmt("forbid", NoScope, NoAction, NoScope,
                  <<ConditionSrc("when", BinaryExpr("&&", trueValue, intOne))>>),
       \* permit(principal, action, resource) unless { principal == User::"alice" };
       PolicyStmt("permit", NoScope, NoAction, NoScope,
                  <<ConditionSrc("unless", principalIsAlice)>>),
       \* forbid(principal, action, resource) when { principal in Group::"admins" }
       \*                                     unless { 1 < 2 && false };
       PolicyStmt("forbid", NoScope, NoAction, NoScope,
                  <<ConditionSrc("when", principalInAdmins),
                    ConditionSrc("unless", BinaryExpr("&&", oneLessTwo, falseValue))>>),
       \* permit(principal is User in Group::"admins", action, resource);
       PolicyStmt("permit", ScopeSrc("path", <<"User">>, "in", admins), NoAction, NoScope, <<>>),
       \* permit(principal, action, resource is 1);
       PolicyStmt("permit", NoScope, NoAction, ScopeSrc("bad", <<>>, "none", <<>>), <<>>)
    >>

\* ------------------------------------------------------------------------
\* State machine

NoOut == [nil |-> TRUE]

\* No authorization call was made yet, GetParents is not running
Calls == {1, 2}
NoCalls == [c \in Calls |-> [phase |-> "idle"]]
NoWalk == [phase |-> "idle"]

NoScanner == [phase |-> "idle"]

Init ==
    /\ store \in Stores
    /\ request \in Requests
    /\ sources = <<>>
    /\ policies = <<>>
    /\ parseErr = FALSE
    /\ exprIn = NilExpr
    /\ exprOut = NoOut
    /\ plOut = NoOut
    /\ evalOut = NoOut
    /\ detailOut = NoOut
    /\ authOut = NoOut
    /\ pc = "idle"
    /\ calls = NoCalls
    /\ walk = NoWalk
    /\ scanner = NoScanner

\* The policy text grows by one statement and is parsed again
LoadPolicy(stmt) ==
    /\ pc = "idle"
    /\ ~parseErr
    /\ Len(sources) < MaxPolicies
    /\ sources' = Append(sources, stmt)
    /\ LET parsed == ParseRules(Append(sources, stmt))
       IN /\ policies' = parsed.policies
          /\ parseErr' = parsed.err
    /\ UNCHANGED <<store, request, exprIn, exprOut, plOut, evalOut, detailOut, authOut, pc,
                   calls, walk, scanner>>

\* NewAuthorizer(policies, WithStore(store)).IsAuthorized(ctx, request)
Authorize ==
    /\ pc = "idle"
    /\ ~parseErr
    /\ LET out == PolicyList_evalNode(policies, RuntimeRequest(store, request))
       IN /\ plOut' = out
          /\ evalOut' = Eval_result(out)
          /\ detailOut' = IsAuthorizedDetail_result(Eval_result(out))
          /\ authOut' = IsAuthorized_result(IsAuthorizedDetail_result(Eval_result(out)))
    /\ pc' = "done"
    /\ UNCHANGED <<store, request, sources, policies, parseErr, exprIn, exprOut,
                   calls, walk, scanner>>

\* One expression node evaluated against the request and the store
EvalExpr(n) ==
    /\ pc = "idle"
    /\ exprIn' = n
    /\ exprOut' = evalNode(n, RuntimeRequest(store, request))
    /\ pc' = "done"
    /\ UNCHANGED <<store, request, sources, policies, parseErr, plOut, evalOut,
                   detailOut, authOut, calls, walk, scanner>>

EvalLogical ==
    \E op \in {"&&", "||"} : \E i \in 1..Len(Operands) : \E j \in 1..Len(Operands) :
        EvalExpr(BinaryExpr(op, Operands[i], Operands[j]))

EvalIn ==
    \E i \in 1..Len(Entities) : \E j \in 1..Len(Entities) :
        EvalExpr(BinaryExpr("in", ValueNode(EntityValue(Entities[i])),
                            ValueNode(EntityValue(Entities[j]))))

EvalInSet ==
    \E i \in 1..Len(Entities) : \E j \in 1..Len(Entities) : \E k \in 1..Len(Entities) :
        EvalExpr(BinaryExpr("in", ValueNode(EntityValue(Entities[i])),
                            ListExpr(<<ValueNode(EntityValue(Entities[j])),
                                       ValueNode(EntityValue(Entities[k]))>>)))

EvalIs ==
    \E i \in 1..Len(Entities) : \E j \in 1..Len(TypePaths) :
        EvalExpr(BinaryExpr("is", ValueNode(EntityValue(Entities[i])),
                            ValueNode(EntityValue(TypePaths[j]))))

EvalEqual ==
    \E op \in {"==", "!="} :
        \E i \in 1..Len(EqualOperands) : \E j \in 1..Len(EqualOperands) :
            EvalExpr(BinaryExpr(op, EqualOperands[i], EqualOperands[j]))

\* `e has k`, `e has "k"`, `principal has k` and a key that is no name
HasKeys == <<Identifier("active"), Identifier("madeup"), ValueNode(StrValue("active")), intOne>>

EvalHas ==
    \E i \in 1..Len(Entities) + 1 : \E j \in 1..Len(HasKeys) :
        EvalExpr(BinaryExpr("has",
                            IF i > Len(Entities) THEN Reference("principal")
                            ELSE ValueNode(EntityValue(Entities[i])),
                            HasKeys[j]))

Next ==
    \/ \E i \in 1..Len(Statements) : LoadPolicy(Statements[i])
    \/ Authorize

Spec == Init /\ [][Next]_vars

NextExpr ==
    \/ EvalLogical
    \/ EvalIn
    \/ EvalInSet
    \/ EvalIs
    \/ EvalEqual
    \/ EvalHas

SpecExpr == Init /\ [][NextExpr]_vars

\* Statements with and without annotations, the `id` annotation alone,
\* repeated and next to another annotation
AnnotatedStatements ==
    <<Statements[1],
      WithAnnotations(Statements[1], <<AnnotationSpec("id", "first")>>),
      WithAnnotations(Statements[2], <<AnnotationSpec("id", "")>>),
      WithAnnotations(Statements[2], <<AnnotationSpec("advice", "id")>>),
      WithAnnotations(Statements[3], <<AnnotationSpec("id", "a"), AnnotationSpec("id", "b")>>),
      WithAnnotations(Statements[8], <<AnnotationSpec("advice", "x"),
                                       AnnotationSpec("id", "policy0")>>)>>

LoadAnnotated == \E i \in 1..Len(AnnotatedStatements) : LoadPolicy(AnnotatedStatements[i])

NextIds ==
    \/ LoadAnnotated
    \/ Authorize

SpecIds == Init /\ [][NextIds]_vars

\* Policy texts in every order: an unconditional permit, a scoped permit, a
\* permit that errors and a conditional forbid
PermStatements == <<Statements[1], Statements[3], Statements[6], Statements[9]>>

InitPerm ==
    /\ store \in {EmptyStore, ChainStore}
    /\ request \in {Request(alice, view, pic), Request(bob, edit, pic)}
    /\ sources = <<>>
    /\ policies = <<>>
    /\ parseErr = FALSE
    /\ exprIn = NilExpr
    /\ exprOut = NoOut
    /\ plOut = NoOut
    /\ evalOut = NoOut
    /\ detailOut = NoOut
    /\ authOut = NoOut
    /\ pc = "idle"
    /\ calls = NoCalls
    /\ walk = NoWalk
    /\ scanner = NoScanner

LoadPermuted == \E i \in 1..Len(PermStatements) : LoadPolicy(PermStatements[i])

NextPerm ==
    \/ LoadPermuted
    \/ Authorize

SpecPerm == InitPerm /\ [][NextPerm]_vars

\* ------------------------------------------------------------------------
\* Member expressions (parser.parseMember, parser.parseAccess,
\* cst.MemberExpr.ToAst)
\*
\* The body of a condition is given by its tokens up to and including the
\* closing brace.

Tok(tok, lit) == [tok |-> tok, lit |-> lit]

\* The parser at token i of toks; errors is the parser's error list being
\* non-empty
Parser(toks, i, errors) == [i |-> i, toks |-> toks, errors |-> errors]

p_tok(p) == IF p.i > Len(p.toks) THEN "EOF" ELSE p.toks[p.i].tok
p_lit(p) == IF p.i > Len(p.toks) THEN "" ELSE p.toks[p.i].lit

next(p) == Parser(p.toks, p.i + 1, p.errors)

expect(p, tok) == Parser(p.toks, p.i + 1, p.errors \/ p_tok(p) # tok)

BasicLit(kind, value) == [k |-> "BasicLit", Value |-> value, Kind |-> kind]

MemberAccess(isFunc, isRef, ident, index) ==
    [Index |-> index, Ident |-> ident, IsFunc |-> isFunc, IsRef |-> isRef]

MemberExpr(primary, access) == [k |-> "MemberExpr", Primary |-> primary, Access |-> access]

Parsed(p, node) == [p |-> p, node |-> node]

parseIdent(p) ==
    IF p_tok(p) = "IDENTIFER"
    THEN Parsed(next(p), BasicLit("IDENTIFER", p_lit(p)))
    ELSE Parsed(expect(p, "IDENTIFER"), BasicLit("IDENTIFER", "_"))

\* Index = <<>> stands for the nil pointer
parseAccess_index(ident, p) ==
    LET q == expect(p, "LBRACK")
    IN IF p_tok(q) = "STRINGLIT"
       THEN Parsed(expect(next(q), "RBRACK"),
                   MemberAccess(FALSE, TRUE, ident, <<BasicLit("STRINGLIT", p_lit(q))>>))
       ELSE Parsed(expect(q, "RBRACK"), MemberAccess(FALSE, TRUE, ident, <<>>))

\* The argument list of a call is not part of the member sources here
parseAccess_result(id) ==
    IF p_tok(id.p) = "LBRACK" THEN parseAccess_index(id.node, id.p)
    ELSE Parsed(id.p, MemberAccess(FALSE, FALSE, id.node, <<>>))

parseAccess(p) == parseAccess_result(parseIdent(p))

parsePrimary(p) ==
    IF p_tok(p) \in {"TRUE", "FALSE", "STRINGLIT", "INT",
                     "PRINCIPAL", "ACTION", "RESOURCE", "CONTEXT"}
    THEN Parsed(next(p), BasicLit(p_tok(p), p_lit(p)))
    ELSE Parsed(p, NilExpr)

RECURSIVE parseMember_loop(_, _, _)
parseMember_item(primary, access, item) ==
    parseMember_loop(item.p, primary, Append(access, item.node))

parseMember_loop(p, primary, access) ==
    IF p_tok(p) = "PERIOD"
    THEN parseMember_item(primary, access, parseAccess(next(p)))
    ELSE Parsed(p, MemberExpr(primary, access))

\* A primary that no '.' follows is returned as it is
parseMember_result(prim) ==
    IF p_tok(prim.p) # "PERIOD" THEN prim
    ELSE parseMember_loop(prim.p, prim.node, <<>>)

parseMember(p) == parseMember_result(parsePrimary(p))

\* cst.UnaryExpr and cst.BinaryExpr
cst_UnaryExpr(op, x) == [k |-> "UnaryExpr", Op |-> op, X |-> x]
cst_BinaryExpr(op, x, y) == [k |-> "BinaryExpr", Op |-> op, X |-> x, Y |-> y]

\* Unary ::= ['!' | '-'] Member
RECURSIVE parseUnary(_)
parseUnary_result(op, x) == Parsed(x.p, cst_UnaryExpr(op, x.node))

parseUnary(p) ==
    IF p_tok(p) \notin {"NOT", "SUB"} THEN parseMember(p)
    ELSE parseUnary_result(p_tok(p), parseUnary(next(p)))

\* The operand to the right of an operator is parsed by the function that
\* met the operator
parseBinary_result(lhs, op, rhs) == Parsed(rhs.p, cst_BinaryExpr(op, lhs.node, rhs.node))

RECURSIVE parseMult(_)
parseMult_rest(lhs) ==
    IF p_tok(lhs.p) # "MUL" THEN lhs
    ELSE parseBinary_result(lhs, "MUL", parseMult(next(lhs.p)))

parseMult(p) == parseMult_rest(parseUnary(p))

RECURSIVE parseAdd(_)
parseAdd_rest(lhs) ==
    IF p_tok(lhs.p) \notin {"ADD", "SUB"} THEN lhs
    ELSE parseBinary_result(lhs, p_tok(lhs.p), parseAdd(next(lhs.p)))

parseAdd(p) == parseAdd_rest(parseMult(p))

\* parseConditions, for a body that is a sum: the expression, then the
\* closing brace
parseConditions_sum(toks) ==
    LET m == parseAdd(Parser(toks, 1, FALSE))
    IN Parsed(expect(m.p, "RBRACE"), m.node)

\* parseConditions, for a body that is a member expression: the expression,
\* then the closing brace
parseConditions_body(toks) ==
    LET m == parseMember(Parser(toks, 1, FALSE))
    IN Parsed(expect(m.p, "RBRACE"), m.node)

\* ------------------------------------------------------------------------
\* String literals (Scanner.scanString, Scanner.scanEscape, cst unquote)
\*
\* A text is a sequence of characters.  The \u{...} escape is not part of
\* the literals scanned here.

Scanned(offset, errors) == [errors |-> errors, offset |-> offset]

\* s.ch at offset i of src; "EOF" stands for the -1 past the end
ch_at(src, i) == IF i > Len(src) THEN "EOF" ELSE src[i]

\* scanEscape: an accepted escape character is consumed, any other is
\* reported and left where it is
scanEscape(src, i, errors, quote) ==
    IF ch_at(src, i) \in {"n", "r", "t", "\\", "'", "*", "0", quote}
    THEN Scanned(i + 1, errors)
    ELSE Scanned(i, TRUE)

\* scanString, the opening quote consumed: src is the text after it, the
\* result the offset after the literal
RECURSIVE scanString(_, _, _)
scanString_escape(src, esc) == scanString(src, esc.offset, esc.errors)

scanString(src, i, errors) ==
    IF ch_at(src, i) \in {"\n", "EOF"} THEN Scanned(i, TRUE)
    ELSE IF src[i] = "\"" THEN Scanned(i + 1, errors)
    ELSE IF src[i] = "\\" THEN scanString_escape(src, scanEscape(src, i + 1, errors, "\""))
    ELSE scanString(src, i + 1, errors)

\* The literal of the token: the text from the opening quote to offset
scanString_lit(src, sc) == <<"\"">> \o SubSeq(src, 1, sc.offset - 1)

\* The switch of unquote on the character after a backslash: what is
\* appended to news.  NUL, TAB, CR and LF name the control characters.
unquote_escaped(ch) ==
    CASE ch = "\\" -> <<"\\">>
      [] ch = "0" -> <<"NUL">>
      [] ch = "'" -> <<"'">>
      [] ch = "t" -> <<"TAB">>
      [] ch = "\"" -> <<"\"">>
      [] ch = "r" -> <<"CR">>
      [] ch = "n" -> <<"LF">>
      [] OTHER -> <<>>

RECURSIVE unquote_loop(_, _, _, _)
unquote_loop(runeStr, index, inQuote, news) ==
    IF index > Len(runeStr) THEN news
    ELSE IF ~inQuote
    THEN (IF runeStr[index] = "\\" THEN unquote_loop(runeStr, index + 1, TRUE, news)
          ELSE unquote_loop(runeStr, index + 1, FALSE, Append(news, runeStr[index])))
    ELSE unquote_loop(runeStr, index + 1, FALSE, news \o unquote_escaped(runeStr[index]))

unquote(str) ==
    IF str[1] # "\"" \/ str[Len(str)] # "\"" THEN str
    ELSE IF \A i \in 1..Len(str) : str[i] # "\\" THEN SubSeq(str, 2, Len(str) - 1)
    ELSE unquote_loop(SubSeq(str, 2, Len(str) - 1), 1, FALSE, <<>>)

\* ------------------------------------------------------------------------
\* Integer literals (Scanner.digits, Scanner.scanNumber, invalidSep,
\* strconv.Atoi)

isDecimal(ch) == ch \in {"0", "1", "2", "3", "4", "5", "6", "7", "8", "9"}

digitVal(ch) ==
    CASE ch = "0" -> 0 [] ch = "1" -> 1 [] ch = "2" -> 2 [] ch = "3" -> 3 [] ch = "4" -> 4
      [] ch = "5" -> 5 [] ch = "6" -> 6 [] ch = "7" -> 7 [] ch = "8" -> 8 [] ch = "9" -> 9

\* digits: the run of digits and '_' from offset i; digit and sep are bits
\* 0 and 1 of digsep
Digits(offset, digit, sep) == [sep |-> sep, offset |-> offset, digit |-> digit]

RECURSIVE digits(_, _, _, _)
digits(src, i, digit, sep) ==
    IF isDecimal(ch_at(src, i)) THEN digits(src, i + 1, TRUE, sep)
    ELSE IF ch_at(src, i) = "_" THEN digits(src, i + 1, digit, TRUE)
    ELSE Digits(i, digit, sep)

\* invalidSep: the index (from 0) of the first '_' of x that does not
\* separate two digits, -1 when there is none; d is '_', '0' for a digit
\* or '.' for anything else
RECURSIVE invalidSep_loop(_, _, _)
invalidSep_loop(x, i, d) ==
    IF i >= Len(x) THEN (IF d = "_" THEN Len(x) - 1 ELSE 0 - 1)
    ELSE IF x[i + 1] = "_"
    THEN (IF d # "0" THEN i ELSE invalidSep_loop(x, i + 1, "_"))
    ELSE IF isDecimal(x[i + 1]) THEN invalidSep_loop(x, i + 1, "0")
    ELSE IF d = "_" THEN i - 1
    ELSE invalidSep_loop(x, i + 1, ".")

invalidSep(x) ==
    IF Len(x) >= 2 /\ x[1] = "0" /\ x[2] \in {"x", "X", "o", "O", "b", "B"}
    THEN invalidSep_loop(x, 2, "0")
    ELSE invalidSep_loop(x, 0, ".")

\* scanNumber at offset 1 of src: the literal, the offset after it and
\* whether an error was reported
NumberToken(lit, offset, errors) == [lit |-> lit, errors |-> errors, offset |-> offset]

scanNumber_result(src, ds) ==
    NumberToken(SubSeq(src, 1, ds.offset - 1), ds.offset,
                ~ds.digit \/ (ds.sep /\ invalidSep(SubSeq(src, 1, ds.offset - 1)) >= 0))

scanNumber(src) == scanNumber_result(src, digits(src, 1, FALSE, FALSE))

\* strconv.Atoi: base 10, digits only (an underscore is a syntax error)
RECURSIVE Atoi_loop(_, _, _)
Atoi_loop(str, i, n) ==
    IF i > Len(str) THEN Ok(IntValue(n))
    ELSE IF ~isDecimal(str[i]) THEN Fail("strconv.Atoi: invalid syntax")
    ELSE Atoi_loop(str, i + 1, n * 10 + digitVal(str[i]))

Atoi(str) == IF str = <<>> THEN Fail("strconv.Atoi: invalid syntax") ELSE Atoi_loop(str, 1, 0)

\* The (nil, err) a ToAst method returns
ErrNode(msg) == [msg |-> msg, k |-> "error"]

BasicLit_ToAst(n) ==
    CASE n.Kind = "STRINGLIT" -> ValueNode(StrValue(unquote(n.Value)))
      [] n.Kind = "INT" ->
            IF Atoi(n.Value).ok THEN ValueNode(Atoi(n.Value).val)
            ELSE ErrNode(Atoi(n.Value).err)
      [] n.Kind = "PRINCIPAL" -> Reference("principal")
      [] n.Kind = "ACTION" -> Reference("action")
      [] n.Kind = "RESOURCE" -> Reference("resource")
      [] n.Kind = "CONTEXT" -> Reference("context")
      [] n.Kind = "TRUE" -> trueValue
      [] n.Kind = "FALSE" -> falseValue
      [] n.Kind = "IDENTIFER" -> Identifier(n.Value)

\* The loop of MemberExpr.ToAst: each access that is no call becomes a
\* lookup of its identifier
RECURSIVE MemberExpr_ToAst_loop(_, _, _)
MemberExpr_ToAst_loop(access, i, left) ==
    IF i > Len(access) THEN left
    ELSE MemberExpr_ToAst_loop(access, i + 1,
                               BinaryExpr(".", left, BasicLit_ToAst(access[i].Ident)))

\* The opcode switch of BinaryExpr.ToAst
BinaryExpr_opcode(op) ==
    CASE op = "EQL" -> "=="
      [] op = "LSS" -> "<"
      [] op = "GTR" -> ">"
      [] op = "NEQ" -> "!="
      [] op = "LEQ" -> "<="
      [] op = "GEQ" -> ">="
      [] op = "LAND" -> "&&"
      [] op = "LOR" -> "||"
      [] op = "ADD" -> "+"
      [] op = "SUB" -> "-"
      [] op = "MUL" -> "*"
      [] op = "QUO" -> "/"
      [] op = "REM" -> "%"
      [] op = "IN" -> "in"
      [] op = "LIKE" -> "like"
      [] op = "HAS" -> "has"

\* BinaryExpr.ToAst once both operands are lowered: the error of the left
\* operand, else that of the right one, else the node
BinaryExpr_ToAst_result(op, left, right) ==
    IF left.k = "error" THEN left
    ELSE IF right.k = "error" THEN right
    ELSE BinaryExpr(BinaryExpr_opcode(op), left, right)

UnaryExpr_ToAst_result(op, left) ==
    IF left.k = "error" THEN left
    ELSE IF op = "SUB" THEN UnaryExpr("-", left)
    ELSE IF op = "NOT" THEN UnaryExpr("!", left)
    ELSE ErrNode("unimplemented unary opcode")

MemberExpr_ToAst_result(access, left) ==
    IF left.k = "error" THEN left ELSE MemberExpr_ToAst_loop(access, 1, left)

RECURSIVE toEvalNode(_)
toEvalNode(n) ==
    CASE n.k = "MemberExpr" -> MemberExpr_ToAst_result(n.Access, toEvalNode(n.Primary))
      [] n.k = "BinaryExpr" -> BinaryExpr_ToAst_result(n.Op, toEvalNode(n.X), toEvalNode(n.Y))
      [] n.k = "UnaryExpr" -> UnaryExpr_ToAst_result(n.Op, toEvalNode(n.X))
      [] OTHER -> BasicLit_ToAst(n)

\* An access of the source text: `.name` or `["name"]`
Access(kind, name) == [kind |-> kind, name |-> name]

MaxAccess == 2
AccessNames == {"x", "y", "k"}
Accesses == {Access(kind, name) : kind \in {"dot", "index"}, name \in AccessNames}

AccessPaths(n) == UNION {[1..l -> Accesses] : l \in 0..n}

Quote(name) == <<"\"", name, "\"">>

AccessTokens(a) ==
    IF a.kind = "dot" THEN <<Tok("PERIOD", ""), Tok("IDENTIFER", a.name)>>
    ELSE <<Tok("LBRACK", ""), Tok("STRINGLIT", Quote(a.name)), Tok("RBRACK", "")>>

RECURSIVE PathTokens(_, _)
PathTokens(path, i) ==
    IF i > Len(path) THEN <<>> ELSE AccessTokens(path[i]) \o PathTokens(path, i + 1)

\* `context` followed by the accesses of path and the closing brace
MemberTokens(path) ==
    <<Tok("CONTEXT", "context")>> \o PathTokens(path, 1) \o <<Tok("RBRACE", "")>>

Contexts ==
    { NewVarValue([n \in {"x", "y"} |->
                     IF n = "x" THEN IntValue(1)
                     ELSE NewVarValue([m \in {"k"} |-> StrValue("v")])]),
      NewVarValue([n \in {"k", "y"} |->
                     IF n = "k" THEN BoolValue(TRUE)
                     ELSE NewVarValue([m \in {"x", "y"} |->
                                         IF m = "x" THEN IntValue(2) ELSE StrValue("w")])]),
      NewVarValue([n \in {} |-> NilValue]) }

WithContext(rt, ctx) == [rt EXCEPT !.Context = ctx]

MemberSource(path, ctx) == [k |-> "source", Context |-> ctx, path |-> path]

\* A condition body is parsed, lowered and evaluated; a body with a parse
\* error yields no policy
MemberRun_lowered(node, rt) ==
    IF node.k = "error" THEN [res |-> NoOut, node |-> node, parsed |-> FALSE]
    ELSE [res |-> evalNode(node, rt), node |-> node, parsed |-> TRUE]

MemberRun(parsed, rt) ==
    IF parsed.p.errors THEN [res |-> NoOut, node |-> NilExpr, parsed |-> FALSE]
    ELSE MemberRun_lowered(toEvalNode(parsed.node), rt)

EvalMember ==
    \E path \in AccessPaths(MaxAccess) : \E ctx \in Contexts :
        /\ pc = "idle"
        /\ exprIn' = MemberSource(path, ctx)
        /\ exprOut' = MemberRun(parseConditions_body(MemberTokens(path)),
                                WithContext(RuntimeRequest(store, request), ctx))
        /\ pc' = "done"
        /\ UNCHANGED <<store, request, sources, policies, parseErr, plOut, evalOut,
                       detailOut, authOut, calls, walk, scanner>>

\* Policies with two conditions: one that does not hold in front of one
\* that errors, the same two the other way round, and two that do not error
CondStatements ==
    << \* permit(principal, action, resource) when { false } when { 1 < true };
       PolicyStmt("permit", NoScope, NoAction, NoScope,
                  <<ConditionSrc("when", falseValue), ConditionSrc("when", typeError)>>),
       \* forbid(principal, action, resource) unless { true } when { 1 < true };
       PolicyStmt("forbid", NoScope, NoAction, NoScope,
                  <<ConditionSrc("unless", trueValue), ConditionSrc("when", typeError)>>),
       \* permit(principal, action, resource) when { 1 < true } when { false };
       PolicyStmt("permit", NoScope, NoAction, NoScope,
                  <<ConditionSrc("when", typeError), ConditionSrc("when", falseValue)>>),
       \* permit(principal, action, resource) when { true } unless { principal == User::"alice" };
       PolicyStmt("permit", NoScope, NoAction, NoScope,
                  <<ConditionSrc("when", trueValue), ConditionSrc("unless", principalIsAlice)>>),
       Statements[1]
    >>

LoadConditional == \E i \in 1..Len(CondStatements) : LoadPolicy(CondStatements[i])

NextCond ==
    \/ LoadConditional
    \/ Authorize

SpecCond == Init /\ [][NextCond]_vars

\* ------------------------------------------------------------------------
\* Authorization calls that share the policies and the store, taken one
\* policy at a time

\* The state private to a call: the Request it was given, its context.Context
\* and the locals of PolicyList.evalNode
CallState(req, cancelled) ==
    [i |-> 1, req |-> req, forbid |-> FALSE, allowed |-> FALSE,
     matches |-> <<>>, elist |-> <<>>, phase |-> "running", cancelled |-> cancelled]

\* One pass of the loop of PolicyList.evalNode, r being what item.evalNode
\* returned; the variant writes into the Request of the call
PolicyList_iteration_WritesRequest(call, item, r) ==
    IF ~r.ok
    THEN [call EXCEPT !.i = @ + 1,
                      !.elist = Append(@, [msg |-> r.err, policy |-> item.Id])]
    ELSE IF ~r.res.Evaluated
    THEN [call EXCEPT !.i = @ + 1]
    ELSE [call EXCEPT !.i = @ + 1,
                      !.req.Principal = call.req.Resource,
                      !.allowed = @ \/ r.res.Permit,
                      !.forbid = @ \/ r.res.Forbid,
                      !.matches = appendMatch(@, r.res, item.Id)]

PolicyList_iteration(call, item, r) ==
    IF ~r.ok
    THEN [call EXCEPT !.i = @ + 1,
                      !.elist = Append(@, [msg |-> r.err, policy |-> item.Id])]
    ELSE IF ~r.res.Evaluated
    THEN [call EXCEPT !.i = @ + 1]
    ELSE [call EXCEPT !.i = @ + 1,
                      !.allowed = @ \/ r.res.Permit,
                      !.forbid = @ \/ r.res.Forbid,
                      !.matches = appendMatch(@, r.res, item.Id)]

\* What the call hands back once the loop is over: the result of
\* PolicyList.evalNode as Eval passes it on, and what IsAuthorized makes of it
CallReturn_result(call, out) ==
    [req |-> call.req, phase |-> "done", cancelled |-> call.cancelled,
     eval |-> out,
     auth |-> IsAuthorized_result(IsAuthorizedDetail_result(out))]

CallReturn(call, rt) ==
    CallReturn_result(call, Eval_result(PolicyList_loop(policies, rt, call.i, call.allowed,
                                                        call.forbid, call.matches, call.elist)))

\* IsAuthorized(ctx, request) is entered: Eval builds the RuntimeRequest
CallBegin(c) ==
    /\ calls[c].phase = "idle"
    /\ \E req \in Requests : \E cancelled \in BOOLEAN :
          calls' = [calls EXCEPT ![c] = CallState(req, cancelled)]
    /\ UNCHANGED <<store, request, sources, policies, parseErr, exprIn, exprOut, plOut,
                   evalOut, detailOut, authOut, pc, walk, scanner>>

\* The next policy of the list is evaluated
CallPolicy(c) ==
    /\ calls[c].phase = "running"
    /\ calls[c].i <= Len(policies)
    /\ calls' = [calls EXCEPT ![c] =
                    PolicyList_iteration(@, policies[@.i],
                        Policy_evalNode(policies[@.i], RuntimeRequest(store, @.req)))]
    /\ UNCHANGED <<store, request, sources, policies, parseErr, exprIn, exprOut, plOut,
                   evalOut, detailOut, authOut, pc, walk, scanner>>

\* The loop is over and the call returns
CallEnd(c) ==
    /\ calls[c].phase = "running"
    /\ calls[c].i > Len(policies)
    /\ calls' = [calls EXCEPT ![c] = CallReturn(@, RuntimeRequest(store, @.req))]
    /\ UNCHANGED <<store, request, sources, policies, parseErr, exprIn, exprOut, plOut,
                   evalOut, detailOut, authOut, pc, walk, scanner>>

\* The caller cancels the context of a call that is under way
Cancel(c) ==
    /\ calls[c].phase = "running"
    /\ ~calls[c].cancelled
    /\ calls' = [calls EXCEPT ![c].cancelled = TRUE]
    /\ UNCHANGED <<store, request, sources, policies, parseErr, exprIn, exprOut, plOut,
                   evalOut, detailOut, authOut, pc, walk, scanner>>

\* The policy texts the calls share
CallSources ==
    {<<>>,
     <<Statements[1], Statements[9], Statements[3]>>,
     <<Statements[6], Statements[1]>>,
     <<Statements[3], Statements[8], Statements[5]>>}

InitCalls ==
    /\ store \in Stores
    /\ request = Request(alice, view, pic)
    /\ sources \in CallSources
    /\ policies = ParseRules(sources).policies
    /\ parseErr = FALSE
    /\ exprIn = NilExpr
    /\ exprOut = NoOut
    /\ plOut = NoOut
    /\ evalOut = NoOut
    /\ detailOut = NoOut
    /\ authOut = NoOut
    /\ pc = "idle"
    /\ calls = NoCalls
    /\ walk = NoWalk
    /\ scanner = NoScanner

NextCalls ==
    \/ \E c \in Calls : CallBegin(c)
    \/ \E c \in Calls : CallPolicy(c)
    \/ \E c \in Calls : CallEnd(c)
    \/ \E c \in Calls : Cancel(c)

SpecCalls == InitCalls /\ [][NextCalls]_vars

\* ------------------------------------------------------------------------
\* EntityStore.GetParents, one iteration of its loop at a time

\* The locals of GetParents: seen holds the entities of the map, which is
\* keyed by their canonical strings
WalkState(key) == [seen |-> {}, todo |-> <<key>>, key |-> key, phase |-> "loop"]

\* One pass of `for len(todo) != 0`; the variant does not enter the entity
\* the walk starts from into seen
GetParents_iteration_ForgetsFirst(items, w) ==
    IF \E s \in w.seen : EntityString(s) = EntityString(Head(w.todo))
    THEN [w EXCEPT !.todo = Tail(@)]
    ELSE IF EntityString(Head(w.todo)) \notin DOMAIN items
    THEN [w EXCEPT !.todo = Tail(@),
                   !.seen = IF @ = {} THEN @ ELSE @ \cup {Head(w.todo)}]
    ELSE [w EXCEPT !.todo = Tail(@) \o items[EntityString(Head(w.todo))].parents,
                   !.seen = IF @ = {} THEN @ ELSE @ \cup {Head(w.todo)}]

GetParents_iteration(items, w) ==
    IF \E s \in w.seen : EntityString(s) = EntityString(Head(w.todo))
    THEN [w EXCEPT !.todo = Tail(@)]
    ELSE IF EntityString(Head(w.todo)) \notin DOMAIN items
    THEN [w EXCEPT !.todo = Tail(@), !.seen = @ \cup {Head(w.todo)}]
    ELSE [w EXCEPT !.todo = Tail(@) \o items[EntityString(Head(w.todo))].parents,
                   !.seen = @ \cup {Head(w.todo)}]

\* GetParents(key) is entered
WalkBegin ==
    /\ walk.phase = "idle"
    /\ \E i \in 1..Len(Entities) : walk' = WalkState(Entities[i])
    /\ UNCHANGED <<store, request, sources, policies, parseErr, exprIn, exprOut, plOut,
                   evalOut, detailOut, authOut, pc, calls, scanner>>

WalkStep ==
    /\ walk.phase = "loop"
    /\ Len(walk.todo) # 0
    /\ walk' = GetParents_iteration(store.items, walk)
    /\ UNCHANGED <<store, request, sources, policies, parseErr, exprIn, exprOut, plOut,
                   evalOut, detailOut, authOut, pc, calls, scanner>>

\* todo is empty: the entities of seen are returned
WalkEnd ==
    /\ walk.phase = "loop"
    /\ Len(walk.todo) = 0
    /\ walk' = [walk EXCEPT !.phase = "done"]
    /\ UNCHANGED <<store, request, sources, policies, parseErr, exprIn, exprOut, plOut,
                   evalOut, detailOut, authOut, pc, calls, scanner>>

\* A store where an entity is its own parent and parents repeat
LoopStore ==
    StoreOf(<<EntityStoreItem(alice, <<alice>>, {}),
              EntityStoreItem(bob, <<bob, alice, bob>>, {}),
              EntityStoreItem(admins, <<staff, staff>>, {}),
              EntityStoreItem(staff, <<admins, bob>>, {})>>)

InitWalk ==
    /\ store \in {StoreOf(<<>>), ChainStore, CycleStore, LoopStore}
    /\ request = Request(alice, view, pic)
    /\ sources = <<>>
    /\ policies = <<>>
    /\ parseErr = FALSE
    /\ exprIn = NilExpr
    /\ exprOut = NoOut
    /\ plOut = NoOut
    /\ evalOut = NoOut
    /\ detailOut = NoOut
    /\ authOut = NoOut
    /\ pc = "idle"
    /\ calls = NoCalls
    /\ walk = NoWalk
    /\ scanner = NoScanner

NextWalk ==
    \/ WalkBegin
    \/ WalkStep
    \/ WalkEnd

\* The loop is run by the caller's own thread and keeps running
SpecWalk == InitWalk /\ [][NextWalk]_vars /\ WF_vars(WalkStep) /\ WF_vars(WalkEnd)

\* `like` over every subject and pattern of the bounded lengths
MaxSubjectLen == 3
MaxPatternLen == 3
GlobChars == {"a", "b", "*", "\\"}
StringsUpTo(n) == UNION {[1..l -> GlobChars] : l \in 0..n}

InitLike ==
    /\ store = EmptyStore
    /\ request = Request(alice, view, pic)
    /\ sources = <<>>
    /\ policies = <<>>
    /\ parseErr = FALSE
    /\ exprIn = NilExpr
    /\ exprOut = NoOut
    /\ plOut = NoOut
    /\ evalOut = NoOut
    /\ detailOut = NoOut
    /\ authOut = NoOut
    /\ pc = "idle"
    /\ calls = NoCalls
    /\ walk = NoWalk
    /\ scanner = NoScanner

EvalLike ==
    /\ pc = "idle"
    /\ \E subj \in StringsUpTo(MaxSubjectLen) : \E pattern \in StringsUpTo(MaxPatternLen) :
           EvalExpr(BinaryExpr("like", ValueNode(StrValue(subj)), ValueNode(StrValue(pattern))))

SpecLike == InitLike /\ [][EvalLike]_vars

SpecMember == InitLike /\ [][EvalMember]_vars

\* Integer literals over every text of digits and '_' of the bounded
\* length that starts with a digit
MaxNumberLen == 4
NumberChars == {"0", "1", "7", "_"}
NumberTexts ==
    {t \in UNION {[1..l -> NumberChars] : l \in 1..MaxNumberLen} : isDecimal(t[1])}

NumberSource(text) == [k |-> "number", text |-> text]

NumberRun(tok, rt) ==
    MemberRun(Parsed(Parser(<<>>, 1, tok.errors), BasicLit("INT", tok.lit)), rt)

EvalNumber ==
    \E text \in NumberTexts :
        /\ pc = "idle"
        /\ exprIn' = NumberSource(text)
        /\ exprOut' = NumberRun(scanNumber(text), RuntimeRequest(store, request))
        /\ pc' = "done"
        /\ UNCHANGED <<store, request, sources, policies, parseErr, plOut, evalOut,
                       detailOut, authOut, calls, walk, scanner>>

SpecNumber == InitLike /\ [][EvalNumber]_vars

\* a / b and a % b over the Longs of the bounded magnitude, a Bool and a
\* String
MaxInt == 3
Longs == {0 - MaxInt + i : i \in 0..(2 * MaxInt)}
DivOperands == {IntValue(n) : n \in Longs} \cup {BoolValue(TRUE), StrValue("a")}

EvalDivide ==
    \E op \in {"/", "%"} : \E a \in DivOperands : \E b \in DivOperands :
        EvalExpr(BinaryExpr(op, ValueNode(a), ValueNode(b)))

SpecDivide == InitLike /\ [][EvalDivide]_vars

\* a op b op c in source text, over the Longs of the bounded magnitude and
\* the operators + and -; a negative Long is written with a unary minus
LongTokens(n) ==
    IF n < 0 THEN <<Tok("SUB", ""), Tok("INT", <<ToString(0 - n)>>)>>
    ELSE <<Tok("INT", <<ToString(n)>>)>>

ChainSource(a, op1, b, op2, c) ==
    [b |-> b, k |-> "chain", a |-> a, c |-> c, op1 |-> op1, op2 |-> op2]

ChainTokens(src) ==
    LongTokens(src.a) \o <<Tok(src.op1, "")>> \o LongTokens(src.b)
        \o <<Tok(src.op2, "")>> \o LongTokens(src.c) \o <<Tok("RBRACE", "")>>

EvalChain ==
    \E a \in Longs : \E b \in Longs : \E c \in Longs :
        \E op1 \in {"ADD", "SUB"} : \E op2 \in {"ADD", "SUB"} :
            /\ pc = "idle"
            /\ exprIn' = ChainSource(a, op1, b, op2, c)
            /\ exprOut' = MemberRun(parseConditions_sum(ChainTokens(ChainSource(a, op1, b, op2, c))),
                                    RuntimeRequest(store, request))
            /\ pc' = "done"
            /\ UNCHANGED <<store, request, sources, policies, parseErr, plOut, evalOut,
                           detailOut, authOut, calls, walk, scanner>>

SpecChain == InitLike /\ [][EvalChain]_vars

\* ip("<text>").isIpv4() and ip("<text>").isIpv6() over dotted texts of
\* four fields, texts with an ellipsis and a few more
V4Fields == {<<"0">>, <<"1">>, <<"1", "2", "7">>, <<"2", "5", "6">>}
V6Heads == {<<>>, <<"1">>, <<"f", "e", "8", "0">>}
V6Tails ==
    {<<>>, <<"1">>, <<"1", ".", "2", ".", "3", ".", "4">>,
     <<"f", "f", "f", "f", ":", "1", ".", "2", ".", "3", ".", "4">>}

IpTexts ==
    {f[1] \o <<".">> \o f[2] \o <<".">> \o f[3] \o <<".">> \o f[4] : f \in [1..4 -> V4Fields]}
      \cup {head \o <<":", ":">> \o tail : head \in V6Heads, tail \in V6Tails}
      \cup {<<"1", ":", "2", ":", "3", ":", "4", ":", "5", ":", "6", ":", "7", ":", "8">>,
            <<"1", ":", ":", "2", ":", ":", "3">>, <<"1", ".", "2", ".", "3">>,
            <<":">>, <<"1">>, <<>>}

EvalIp ==
    \E text \in IpTexts : \E fn \in {"isIpv4", "isIpv6"} :
        EvalExpr(FunctionCall(fn, FunctionCall("ip", NilExpr, <<ValueNode(StrValue(text))>>),
                              <<>>))

SpecIp == InitLike /\ [][EvalIp]_vars

\* ------------------------------------------------------------------------
\* The scanner (Scanner.Init, Scanner.next, Scanner.Scan)
\*
\* offset is the offset of ch counted from 0 and rdOffset the offset after
\* ch; ch is "EOF" for the -1 at the end of src.  The texts hold ASCII
\* characters other than NUL, on which next reports nothing.  errors says
\* whether the error handler was called.  BQ names the back quote.  nlPos
\* is assigned nowhere but in the branch of Scan that tests it, so that
\* branch is never taken; the line table of the file has no part in the
\* position of the scanner.

Scanner(src, ch, offset, rdOffset, errors, mode) ==
    [src |-> src, ch |-> ch, errors |-> errors, offset |-> offset,
     rdOffset |-> rdOffset, mode |-> mode]

Scanner_next(s) ==
    IF s.rdOffset < Len(s.src)
    THEN [s EXCEPT !.offset = s.rdOffset, !.ch = s.src[s.rdOffset + 1],
                   !.rdOffset = s.rdOffset + 1]
    ELSE [s EXCEPT !.offset = Len(s.src), !.ch = "EOF"]

Scanner_error(s) == [s EXCEPT !.errors = TRUE]

Scanner_Init(src, mode) == Scanner_next(Scanner(src, " ", 0, 0, FALSE, mode))

\* The scanner once next has moved it to offset o
Scanner_seek(s, o) ==
    IF o < Len(s.src)
    THEN [s EXCEPT !.offset = o, !.ch = s.src[o + 1], !.rdOffset = o + 1]
    ELSE [s EXCEPT !.offset = Len(s.src), !.ch = "EOF", !.rdOffset = Len(s.src)]

Scanner_errorIf(s, reported) == IF reported THEN Scanner_error(s) ELSE s

\* The text from offset o of src on
Scanner_rest(s) == SubSeq(s.src, s.offset + 1, Len(s.src))

RECURSIVE skipWhitespace(_)
skipWhitespace(s) ==
    IF s.ch \in {" ", "\t", "\n", "\r"} THEN skipWhitespace(Scanner_next(s)) ELSE s

LowerLetters ==
    {"a", "b", "c", "d", "e", "f", "g", "h", "i", "j", "k", "l", "m",
     "n", "o", "p", "q", "r", "s", "t", "u", "v", "w", "x", "y", "z"}

UpperLetters ==
    {"A", "B", "C", "D", "E", "F", "G", "H", "I", "J", "K", "L", "M",
     "N", "O", "P", "Q", "R", "S", "T", "U", "V", "W", "X", "Y", "Z"}

isLetter(ch) == ch \in LowerLetters \cup UpperLetters \cup {"_"}

\* scanIdentifier: the bytes from rdOffset on are passed over while they
\* are letters, digits or '_'
RECURSIVE scanIdentifier_loop(_, _)
scanIdentifier_loop(src, rdOffset) ==
    IF rdOffset < Len(src) /\ (isLetter(src[rdOffset + 1]) \/ isDecimal(src[rdOffset + 1]))
    THEN scanIdentifier_loop(src, rdOffset + 1)
    ELSE rdOffset

scanIdentifier(s) == Scanner_seek(s, scanIdentifier_loop(s.src, s.rdOffset))

\* Lookup: the keyword token of an identifier, IDENTIFER when it is none
Lookup(ident) ==
    CASE ident = <<"t", "r", "u", "e">> -> "TRUE"
      [] ident = <<"f", "a", "l", "s", "e">> -> "FALSE"
      [] ident = <<"i", "f">> -> "IF"
      [] ident = <<"p", "e", "r", "m", "i", "t">> -> "PERMIT"
      [] ident = <<"f", "o", "r", "b", "i", "d">> -> "FORBID"
      [] ident = <<"w", "h", "e", "n">> -> "WHEN"
      [] ident = <<"u", "n", "l", "e", "s", "s">> -> "UNLESS"
      [] ident = <<"i", "n">> -> "IN"
      [] ident = <<"h", "a", "s">> -> "HAS"
      [] ident = <<"l", "i", "k", "e">> -> "LIKE"
      [] ident = <<"i", "s">> -> "IS"
      [] ident = <<"t", "h", "e", "n">> -> "THEN"
      [] ident = <<"e", "l", "s", "e">> -> "ELSE"
      [] ident = <<"p", "r", "i", "n", "c", "i", "p", "a", "l">> -> "PRINCIPAL"
      [] ident = <<"a", "c", "t", "i", "o", "n">> -> "ACTION"
      [] ident = <<"r", "e", "s", "o", "u", "r", "c", "e">> -> "RESOURCE"
      [] ident = <<"c", "o", "n", "t", "e", "x", "t">> -> "CONTEXT"
      [] ident = <<"?", "p", "r", "i", "n", "c", "i", "p", "a", "l">> -> "PRINCIPAL_SLOT"
      [] ident = <<"?", "r", "e", "s", "o", "u", "r", "c", "e">> -> "RESOURCE_SLOT"
      [] OTHER -> "IDENTIFER"

\* scanComment, the initial '/' consumed and ch the '/' or '*' after it
RECURSIVE scanComment_line(_)
scanComment_line(s) ==
    IF s.ch \notin {"\n", "EOF"} THEN scanComment_line(Scanner_next(s)) ELSE s

RECURSIVE scanComment_block(_)
scanComment_block(s) ==
    IF s.ch = "EOF" THEN Scanner_error(s)
    ELSE IF s.ch = "*" /\ Scanner_next(s).ch = "/" THEN Scanner_next(Scanner_next(s))
    ELSE scanComment_block(Scanner_next(s))

scanComment(s) ==
    IF s.ch = "/" THEN scanComment_line(Scanner_next(s))
    ELSE scanComment_block(Scanner_next(s))

\* scanRawString, the opening back quote consumed
RECURSIVE scanRawString(_)
scanRawString(s) ==
    IF s.ch = "EOF" THEN Scanner_error(s)
    ELSE IF s.ch = "BQ" THEN Scanner_next(s)
    ELSE scanRawString(Scanner_next(s))

\* scanString and scanNumber on the scanner: the text from offset on is
\* scanned and the scanner is left after the literal
Scanner_scanString_result(s, sc) ==
    Scanner_errorIf(Scanner_seek(s, s.offset + sc.offset - 1), sc.errors)

Scanner_scanString(s) == Scanner_scanString_result(s, scanString(Scanner_rest(s), 1, FALSE))

Scanner_scanNumber_result(s, number) ==
    Scanner_errorIf(Scanner_seek(s, s.offset + number.offset - 1), number.errors)

Scanner_scanNumber(s) == Scanner_scanNumber_result(s, scanNumber(Scanner_rest(s)))

\* What Scan returns, with the scanner it leaves: the token and its
\* position pos.  The text the token covers in src runs from pos to the
\* offset of the scanner.
Token(s, tok, pos) == [s |-> s, tok |-> tok, pos |-> pos]

Token_text(token) == SubSeq(token.s.src, token.pos + 1, token.s.offset)

Scan_identifier(s, pos) ==
    Token(s, IF s.offset - pos > 1 THEN Lookup(SubSeq(s.src, pos + 1, s.offset))
             ELSE "IDENTIFER", pos)

\* One or two characters of an operator: s is the scanner after the first
Scan_pair(s, second, both, single, pos) ==
    IF s.ch = second THEN Token(Scanner_next(s), both, pos) ELSE Token(s, single, pos)

RECURSIVE Scan(_)

Scan_comment(s, pos) ==
    IF s.mode # "ScanComments" THEN Scan(s) ELSE Token(s, "COMMENT", pos)

\* The inner switch of Scan on ch, s being the scanner after s.next()
Scan_switch(s, ch, pos) ==
    CASE ch = "EOF" -> Token(s, "EOF", pos)
      [] ch = "\n" -> Token(s, "SEMICOLON", pos)
      [] ch = "\"" -> Token(Scanner_scanString(s), "STRINGLIT", pos)
      [] ch = "BQ" -> Token(scanRawString(s), "STRINGLIT", pos)
      [] ch = ":" -> Scan_pair(s, ":", "PATH", "COLON", pos)
      [] ch = "." -> Token(s, "PERIOD", pos)
      [] ch = "," -> Token(s, "COMMA", pos)
      [] ch = ";" -> Token(s, "SEMICOLON", pos)
      [] ch = "(" -> Token(s, "LPAREN", pos)
      [] ch = ")" -> Token(s, "RPAREN", pos)
      [] ch = "[" -> Token(s, "LBRACK", pos)
      [] ch = "]" -> Token(s, "RBRACK", pos)
      [] ch = "{" -> Token(s, "LBRACE", pos)
      [] ch = "}" -> Token(s, "RBRACE", pos)
      [] ch = "+" -> Token(s, "ADD", pos)
      [] ch = "-" -> Token(s, "SUB", pos)
      [] ch = "*" -> Token(s, "MUL", pos)
      [] ch = "/" -> IF s.ch \in {"/", "*"} THEN Scan_comment(scanComment(s), pos)
                     ELSE Token(s, "QUO", pos)
      [] ch = "@" -> Token(s, "AT", pos)
      [] ch = "%" -> Token(s, "REM", pos)
      [] ch = "<" -> Scan_pair(s, "=", "LEQ", "LSS", pos)
      [] ch = ">" -> Scan_pair(s, "=", "GEQ", "GTR", pos)
      [] ch = "=" -> Scan_pair(s, "=", "EQL", "ILLEGAL", pos)
      [] ch = "!" -> Scan_pair(s, "=", "NEQ", "NOT", pos)
      [] ch = "&" -> Scan_pair(s, "&", "LAND", "ILLEGAL", pos)
      [] ch = "|" -> Scan_pair(s, "|", "LOR", "ILLEGAL", pos)
      [] OTHER -> Token(Scanner_error(s), "ILLEGAL", pos)

\* The default case of the outer switch, which calls s.next() before the
\* inner switch ("always make progress"); the variant goes to the inner
\* switch without the call
Scan_default_Stay(s) == Scan_switch(s, s.ch, s.offset)

Scan_default(s) == Scan_switch(Scanner_next(s), s.ch, s.offset)

Scan_token(s) ==
    IF isLetter(s.ch) \/ s.ch = "?" THEN Scan_identifier(scanIdentifier(s), s.offset)
    ELSE IF isDecimal(s.ch) THEN Token(Scanner_scanNumber(s), "INT", s.offset)
    ELSE Scan_default(s)

\* Scan: the token at the scanner that skipWhitespace leaves
Scan(s) == CHOOSE token \in {Scan_token(skipped) : skipped \in {skipWhitespace(s)}} : TRUE

\* The texts scanned: a letter, a digit, the slot mark, white space, the
\* quotes, the escape, the comment characters, an operator of two
\* characters and a character of no token
MaxSrcLen == 3

SrcChars == {"a", "1", "?", " ", "\n", "\"", "BQ", "\\", "/", "*", "=", "#"}

RECURSIVE SrcUpTo(_)
SrcUpTo(n) ==
    IF n = 0 THEN {<<>>}
    ELSE SrcUpTo(n - 1) \cup {Append(t, c) : t \in {u \in SrcUpTo(n - 1) : Len(u) = n - 1}, c \in SrcChars}

ScanModes == {"ScanComments", "SkipComments"}

Scanning(s) == [calls |-> 0, s |-> s, phase |-> "scanning", tok |-> "NONE", pos |-> 0]

InitScan ==
    /\ store = EmptyStore
    /\ request = Request(alice, view, pic)
    /\ sources = <<>>
    /\ policies = <<>>
    /\ parseErr = FALSE
    /\ exprIn = NilExpr
    /\ exprOut = NoOut
    /\ plOut = NoOut
    /\ evalOut = NoOut
    /\ detailOut = NoOut
    /\ authOut = NoOut
    /\ pc = "idle"
    /\ calls = NoCalls
    /\ walk = NoWalk
    /\ scanner = NoScanner

\* parser.init: the scanner is set up on a text, to scan comments when the
\* parser is to keep them
ParserInit ==
    /\ scanner.phase = "idle"
    /\ \E src \in SrcUpTo(MaxSrcLen), mode \in ScanModes :
           scanner' = Scanning(Scanner_Init(src, mode))
    /\ UNCHANGED <<store, request, sources, policies, parseErr, exprIn, exprOut, plOut,
                   evalOut, detailOut, authOut, pc, calls, walk>>

ScanCall_result(token, sc) ==
    [calls |-> sc.calls + 1, s |-> token.s, phase |-> "scanning", tok |-> token.tok,
     pos |-> token.pos]

\* parser.next0: one call of Scan.  The count of calls is capped at one
\* for each byte of src and one for the end
ScanCall ==
    /\ scanner.phase = "scanning"
    /\ scanner.tok # "EOF"
    /\ scanner.calls <= Len(scanner.s.src)
    /\ \E token \in {Scan(scanner.s)} : scanner' = ScanCall_result(token, scanner)
    /\ UNCHANGED <<store, request, sources, policies, parseErr, exprIn, exprOut, plOut,
                   evalOut, detailOut, authOut, pc, calls, walk>>

\* The parser stops asking at EOF
ScanEnd ==
    /\ scanner.phase = "scanning"
    /\ scanner.tok = "EOF"
    /\ scanner' = [scanner EXCEPT !.phase = "done"]
    /\ UNCHANGED <<store, request, sources, policies, parseErr, exprIn, exprOut, plOut,
                   evalOut, detailOut, authOut, pc, calls, walk>>

NextScan == ParserInit \/ ScanCall \/ ScanEnd

SpecScan == InitScan /\ [][NextScan]_vars /\ WF_vars(ScanCall)

\* s.containsAll(t) over every two sets of the bounded length
MaxSetLen == 2
SetItems == {IntValue(1), IntValue(2), StrValue("a"), EntityValue(alice), EntityValue(bob)}
SetsUpTo(n) == UNION {[1..l -> SetItems] : l \in 0..n}

EvalContainsAll ==
    \E s \in SetsUpTo(MaxSetLen) : \E t \in SetsUpTo(MaxSetLen) :
        EvalExpr(FunctionCall("containsAll", SetOf(s), <<SetOf(t)>>))

SpecSets == InitLike /\ [][EvalContainsAll]_vars

\* `context.s like "<body>"` over every subject and every literal body of
\* the bounded lengths: the literal is scanned, the expression lowered and
\* evaluated with the subject as context.s
QuoteChars == {"a", "*", "\\"}
QuotedUpTo(n) == UNION {[1..l -> QuoteChars] : l \in 0..n}

QuotedSource(subj, body) == [k |-> "quoted", subj |-> subj, body |-> body]

LikeExpr(lit) ==
    cst_BinaryExpr("LIKE",
                   MemberExpr(BasicLit("CONTEXT", "context"),
                              <<MemberAccess(FALSE, FALSE, BasicLit("IDENTIFER", "s"), <<>>)>>),
                   BasicLit("STRINGLIT", lit))

QuotedRun(src, sc, rt) ==
    MemberRun(Parsed(Parser(<<>>, 1, sc.errors), LikeExpr(scanString_lit(src, sc))), rt)

EvalQuoted ==
    \E subj \in QuotedUpTo(MaxSubjectLen) : \E body \in QuotedUpTo(MaxPatternLen) :
        /\ pc = "idle"
        /\ exprIn' = QuotedSource(subj, body)
        /\ exprOut' = QuotedRun(Append(body, "\""), scanString(Append(body, "\""), 1, FALSE),
                                WithContext(RuntimeRequest(store, request),
                                            NewVarValue([n \in {"s"} |-> StrValue(subj)])))
        /\ pc' = "done"
        /\ UNCHANGED <<store, request, sources, policies, parseErr, plOut, evalOut,
                       detailOut, authOut, calls, walk, scanner>>

SpecQuoted == InitLike /\ [][EvalQuoted]_vars

\* ------------------------------------------------------------------------
\* Reference notions used by the properties

Runtime == RuntimeRequest(store, request)

\* The head of p evaluates to true
HeadIsTrue(p) ==
    LET r == evalNode(p.If, Runtime) IN r.ok /\ r.val = BoolValue(TRUE)

\* A `when` body true, an `unless` body false
ConditionHolds(c) ==
    LET r == evalNode(c.Expr, Runtime)
    IN r.ok /\ r.val.t = "boolean" /\ (c.Condition = "when" <=> r.val.b)

\* A head or a condition of p that the evaluator reaches is an error or is
\* not a Bool
HeadErrs(p) ==
    LET r == evalNode(p.If, Runtime) IN ~r.ok \/ r.val.t # "boolean"

ConditionErrs(c) ==
    LET r == evalNode(c.Expr, Runtime) IN ~r.ok \/ r.val.t # "boolean"

PolicyErrs(p) ==
    \/ HeadErrs(p)
    \/ HeadIsTrue(p) /\ \E i \in 1..Len(p.Conditions) : ConditionErrs(p.Conditions[i])

PolicyApplies(p) ==
    HeadIsTrue(p) /\ \A i \in 1..Len(p.Conditions) : ConditionHolds(p.Conditions[i])

Applied(effect, idxs) ==
    \E i \in idxs : policies[i].Effect = effect /\ PolicyApplies(policies[i])

AllPolicies == 1..Len(policies)
NonErroring == {i \in AllPolicies : ~PolicyErrs(policies[i])}

Called == authOut # NoOut

\* The decision the caller of Eval holds: Eval hands out a Result only when
\* it returns no error
AllowReturned == ~evalOut.nil /\ evalOut.result.Decision = Allow
DenyReturned == ~evalOut.nil /\ evalOut.result.Decision = Deny

\* ------------------------------------------------------------------------
\* Properties

\* C1: if authorization returns Allow then some Permit policy has its head
\* and all of its conditions evaluating to true (a `when` body true, an
\* `unless` body false) and no Forbid policy has.
C1_AllowIsSound ==
    (Called /\ (plOut.res.Decision = Allow \/ AllowReturned \/ authOut.allowed))
        => (Applied("permit", AllPolicies) /\ ~Applied("forbid", AllPolicies))

C1_Witness ==
    /\ Called
    /\ authOut.allowed
    /\ \E i \in AllPolicies : policies[i].Effect = "forbid"
    /\ \E i \in AllPolicies : policies[i].Effect = "permit" /\ policies[i].Conditions # <<>>

\* C2: the decision is Allow if and only if at least one Permit policy
\* applied and no Forbid policy applied; in every other case, the empty
\* policy set included, it is Deny.
C2_AllowIffPermitAndNoForbid ==
    Called =>
        IF Applied("permit", AllPolicies) /\ ~Applied("forbid", AllPolicies)
        THEN AllowReturned /\ authOut.allowed
        ELSE DenyReturned /\ ~authOut.allowed

\* C3: a policy set that contains both permit(principal,action,resource);
\* and forbid(principal,action,resource); yields Deny for every request,
\* whatever other policies it contains.
HasStatement(stmt) == \E i \in 1..Len(sources) : sources[i] = stmt

C3_ForbidOverrides ==
    (Called /\ HasStatement(Statements[1]) /\ HasStatement(Statements[2]))
        => /\ plOut.res.Decision = Deny
           /\ ~AllowReturned
           /\ ~authOut.allowed
           /\ (evalOut.err = <<>> => DenyReturned)

C3_Witness ==
    /\ Called
    /\ HasStatement(Statements[1])
    /\ HasStatement(Statements[2])
    /\ Len(sources) = 3
    /\ \E i \in AllPolicies :
          /\ policies[i].Effect = "permit"
          /\ policies[i].Conditions # <<>>
          /\ PolicyApplies(policies[i])
    /\ DenyReturned

\* C4: errors cannot turn a Deny into an Allow: a policy whose evaluation
\* errors is never counted as an applied Permit, so the caller receives
\* Allow only if the policies that evaluate without error yield Allow.
C4_ErrorsNeverAllow ==
    Called =>
        /\ \A i \in AllPolicies :
              PolicyErrs(policies[i]) =>
                 \A k \in 1..Len(plOut.res.RulesMatched) :
                    plOut.res.RulesMatched[k] # policies[i].Id
        /\ (authOut.allowed \/ AllowReturned \/ plOut.res.Decision = Allow)
              => (Applied("permit", NonErroring) /\ ~Applied("forbid", NonErroring))

C4_Witness ==
    /\ Called
    /\ \E i \in AllPolicies : policies[i].Effect = "permit" /\ PolicyErrs(policies[i])
    /\ ~Applied("permit", NonErroring)
    /\ ~authOut.allowed
    /\ authOut.err # <<>>

\* C5: an evaluation error in one policy aborts that policy only: every
\* other policy is still evaluated, the decision is the one the
\* non-erroring policies give, and it is returned together with a
\* non-empty errors list.
C5_ErrorIsContained ==
    (Called /\ \E i \in AllPolicies : PolicyErrs(policies[i]))
        => /\ evalOut.err # <<>>
           /\ IF Applied("permit", NonErroring) /\ ~Applied("forbid", NonErroring)
              THEN AllowReturned
              ELSE DenyReturned

\* The type path of an entity: its components without the id
TypePathOf(e) == SubSeq(e, 1, Len(e) - 1)

IsPrefix(path, full) ==
    Len(path) <= Len(full) /\ \A i \in 1..Len(path) : path[i] = full[i]

EvaluatesTo(n, b) ==
    LET r == evalNode(n, Runtime) IN r.ok /\ r.val = BoolValue(b)

\* C6: in `l && r`, when l evaluates to false the result is false and r is
\* never evaluated, so an r that would raise an error (or that is not a
\* Bool) raises nothing.
C6_AndShortCircuits ==
    (exprIn.k = "binary" /\ exprIn.op = "&&" /\ EvaluatesTo(exprIn.left, FALSE))
        => /\ exprOut.ok
           /\ exprOut.val = BoolValue(FALSE)
           /\ exprOut.visited = <<exprIn>> \o evalNode(exprIn.left, Runtime).visited

\* C7: a scope clause `principal is PATH` or `resource is PATH` lowers to
\* If(is-check, normal-clause, false), so the policy head is false for every
\* request whose principal (respectively resource) is not of type PATH.
IsClauseGuards(src, name, entity, head) ==
    src.isKind = "path" =>
        /\ Variable_ToAst(parsePrincipalResource(name, src).node).expr.k = "if"
        /\ ~IsPrefix(src.isPath, TypePathOf(entity)) => EvaluatesTo(head, FALSE)

C7_IsClauseGuardsHead ==
    \A i \in 1..Len(policies) :
        /\ IsClauseGuards(sources[i].Principal, "principal", request.Principal, policies[i].If)
        /\ IsClauseGuards(sources[i].Resource, "resource", request.Resource, policies[i].If)

\* C8: `E in E` is true for every entity E, whatever the store contains,
\* the default empty store and a store that does not know E included.
C8_InIsReflexive ==
    (exprIn.k = "binary" /\ exprIn.op = "in" /\ exprIn.left = exprIn.right)
        => (exprOut.ok /\ exprOut.val = BoolValue(TRUE))

\* The direct parents the store holds for e, and everything reachable from
\* a set of entities through one or more parent links
DirectParents(e) ==
    IF store.kind = "entity" /\ EntityString(e) \in DOMAIN store.items
    THEN {store.items[EntityString(e)].parents[i] :
             i \in 1..Len(store.items[EntityString(e)].parents)}
    ELSE {}

RECURSIVE Closure(_)
Closure(S) ==
    LET N == S \cup UNION {DirectParents(x) : x \in S}
    IN IF N = S THEN S ELSE Closure(N)

Ancestors(e) == Closure(DirectParents(e))

\* C9: `l in r` is true exactly when r (or, for a set r, at least one of
\* its elements) equals l or an entity reachable from l through one or
\* more parent links of the store; otherwise it is false.
C9_InIsReachability ==
    (exprIn.k = "binary" /\ exprIn.op = "in")
        => LET l == exprIn.left.v.e
               targets == IF exprIn.right.k = "value" THEN {exprIn.right.v.e}
                          ELSE {exprIn.right.exprs[i].v.e : i \in 1..Len(exprIn.right.exprs)}
           IN /\ exprOut.ok
              /\ exprOut.val.b <=> \E r \in targets : r = l \/ r \in Ancestors(l)

\* C10: `e is T` is true exactly when the type path of e (its components
\* without the id) starts with the path T; the id of e never takes part in
\* the comparison.
C10_IsComparesTypePath ==
    (exprIn.k = "binary" /\ exprIn.op = "is")
        => LET e == exprIn.left.v.e
               T == SubSeq(exprIn.right.v.e, 1, Len(exprIn.right.v.e) - 1)
           IN /\ exprOut.ok
              /\ exprOut.val.b <=> IsPrefix(T, TypePathOf(e))

\* The value an operand evaluates to, and its variant
ValueOf(n) == evalNode(n, Runtime).val

IsComparison == exprIn.k = "binary" /\ exprIn.op \in {"==", "!="}

\* C11: `l == r` on two values of different variants evaluates to false and
\* `l != r` to true, without raising a type error.
C11_EqualAcrossVariants ==
    (IsComparison /\ ValueOf(exprIn.left).t # ValueOf(exprIn.right).t)
        => /\ exprOut.ok
           /\ exprOut.val = BoolValue(exprIn.op = "!=")

\* a is a subset of b: every element of a has an equal element in b
SubsetOf(a, b) ==
    \A i \in 1..Len(a.items) : \E j \in 1..Len(b.items) : a.items[i] = b.items[j]

\* C12: two sets are equal exactly when each is a subset of the other,
\* regardless of element order and of how many times an element is
\* repeated.
C12_SetEqualityIsMutualSubset ==
    (IsComparison /\ exprIn.op = "=="
        /\ ValueOf(exprIn.left).t = "set" /\ ValueOf(exprIn.right).t = "set")
        => /\ exprOut.ok
           /\ exprOut.val.b <=> (/\ SubsetOf(ValueOf(exprIn.left), ValueOf(exprIn.right))
                                 /\ SubsetOf(ValueOf(exprIn.right), ValueOf(exprIn.left)))

\* The store holds attribute k for entity e
HoldsAttribute(e, k) ==
    /\ store.kind = "entity"
    /\ EntityString(e) \in DOMAIN store.items
    /\ k \in store.items[EntityString(e)].values.keys

\* C13: `e has k` is true exactly when the store holds an attribute k for
\* entity e; a NotFound answer of the store yields false.
C13_HasIsAttributePresence ==
    (/\ exprIn.k = "binary" /\ exprIn.op = "has"
     /\ ValueOf(exprIn.right).t \in {"string", "identifier"})
        => /\ exprOut.ok
           /\ exprOut.val.b <=> HoldsAttribute(ValueOf(exprIn.left).e, ValueOf(exprIn.right).s)

\* The whole of s matches p: an unescaped star stands for any run of
\* characters, the character after a backslash and every other character
\* for itself
RECURSIVE Matches(_, _)
Matches(p, s) ==
    IF p = <<>> THEN s = <<>>
    ELSE IF p[1] = "*" THEN \E k \in 0..Len(s) : Matches(Tail(p), SubSeq(s, k + 1, Len(s)))
    ELSE IF p[1] = "\\" /\ Len(p) >= 2
         THEN s # <<>> /\ s[1] = p[2] /\ Matches(SubSeq(p, 3, Len(p)), Tail(s))
         ELSE s # <<>> /\ s[1] = p[1] /\ Matches(Tail(p), Tail(s))

IsLike == exprIn.k = "binary" /\ exprIn.op = "like"

RECURSIVE AppliedIds(_)
AppliedIds(n) ==
    IF n = 0 THEN <<>>
    ELSE IF PolicyApplies(policies[n]) THEN Append(AppliedIds(n - 1), policies[n].Id)
    ELSE AppliedIds(n - 1)

HasIdAnnotation(stmt) ==
    \E i \in 1..Len(stmt.Annotations) : stmt.Annotations[i].Ident = "id"

LastIdAnnotation(stmt) ==
    stmt.Annotations[CHOOSE i \in 1..Len(stmt.Annotations) :
                        /\ stmt.Annotations[i].Ident = "id"
                        /\ \A j \in (i + 1)..Len(stmt.Annotations) :
                                stmt.Annotations[j].Ident # "id"].Value

PositionId(i) ==
    CASE i = 1 -> "policy0" [] i = 2 -> "policy1" [] i = 3 -> "policy2"
      [] i = 4 -> "policy3" [] OTHER -> "policy4"

C17_CancellationStopsEvaluation ==
    [][\A c \in Calls :
          (calls[c].phase = "running" /\ calls[c].cancelled /\ calls'[c] # calls[c])
              => /\ calls'[c].phase = "done"
                 /\ calls'[c].eval.nil
                 /\ calls'[c].auth.err # <<>>]_vars

\* C18: an authorization call mutates neither the Request it is given, nor
\* the policy set, nor the store: everything it writes is private to that
\* call, so calls that share policies and a store (sequentially or in
\* parallel) each get the result they would get alone.
C18_CallsAreIsolated ==
    [][/\ store' = store
       /\ policies' = policies
       /\ \A c \in Calls :
             /\ calls[c].phase # "idle" => calls'[c].req = calls[c].req
             /\ calls'[c].phase = "done" =>
                   /\ calls'[c].eval = Eval(policies, store, calls'[c].req)
                   /\ calls'[c].auth = IsAuthorized(policies, store, calls'[c].req)]_vars

\* One call has returned Allow while the other, made for another request, is
\* in the middle of the policy list
C18_Witness ==
    /\ calls[1].phase = "running" /\ calls[1].i = 2 /\ calls[1].matches # <<>>
    /\ calls[2].phase = "done" /\ calls[2].auth.allowed
    /\ calls[1].req # calls[2].req

\* The policies of the source text taken in the order perm
Permuted(perm) == ParseRules([k \in 1..Len(sources) |-> sources[perm[k]]]).policies

\* C19: permuting the policies of a policy set never changes the decision
\* for any request.
C19_DecisionIgnoresOrder ==
    Called =>
        \A perm \in Permutations(1..Len(sources)) :
            /\ PolicyList_evalNode(Permuted(perm), Runtime).res.Decision = plOut.res.Decision
            /\ Eval(Permuted(perm), store, request).result.Decision = evalOut.result.Decision
            /\ IsAuthorized(Permuted(perm), store, request).allowed = authOut.allowed

\* An Allow that a permit placed first, second or third all produce, next
\* to policies that do not apply
C19_Witness ==
    /\ Called
    /\ authOut.allowed
    /\ Len(sources) = 3
    /\ sources[1] # sources[2] /\ sources[2] # sources[3] /\ sources[1] # sources[3]

\* The entity at the head of todo is expanded by the step: it enters seen
\* and the parents the store holds for it are appended to todo
Expands ==
    /\ walk.phase = "loop" /\ walk'.phase = "loop"
    /\ walk' # walk
    /\ \/ walk'.seen # walk.seen
       \/ Len(walk'.todo) >= Len(walk.todo)

\* C20: computing the transitive parents of an entity terminates for every
\* finite store, including one whose parent links form a cycle, and expands
\* each entity at most once.
C20_GetParentsTerminates ==
    /\ [][/\ Expands => /\ Head(walk.todo) \notin walk.seen
                        /\ Head(walk.todo) \in walk'.seen
          /\ (walk.phase = "loop" /\ walk'.phase # "idle") => walk.seen \subseteq walk'.seen
          /\ (walk.phase = "loop" /\ walk'.phase = "done") =>
                walk'.seen = EntityStore_GetParents(store, walk.key)]_vars
    /\ (walk.phase = "loop") ~> (walk.phase = "done")

\* The walk over a store whose parent links form a cycle has returned
C20_Witness ==
    /\ walk.phase = "done"
    /\ store = CycleStore
    /\ walk.key = alice
    /\ walk.seen = {alice, admins, staff}

\* Condition k of policy p is the first one that makes p inapplicable: the
\* head is true, the conditions before k hold and condition k, without
\* error, does not
SettledInapplicableAt(p, k) ==
    /\ HeadIsTrue(p)
    /\ \A j \in 1..(k - 1) : ConditionHolds(p.Conditions[j])
    /\ ~ConditionErrs(p.Conditions[k])
    /\ ~ConditionHolds(p.Conditions[k])

\* C21: conditions are evaluated in order and the first condition that makes
\* the policy inapplicable settles it: the policy is simply inapplicable and
\* no error is recorded for it, even when a later condition of the same
\* policy would raise an error.
C21_FirstFailingConditionSettles ==
    Called =>
        \A i \in AllPolicies :
            (\E k \in 1..Len(policies[i].Conditions) : SettledInapplicableAt(policies[i], k))
                => /\ \A e \in 1..Len(plOut.err) : plOut.err[e].policy # policies[i].Id
                   /\ \A m \in 1..Len(plOut.res.RulesMatched) :
                         plOut.res.RulesMatched[m] # policies[i].Id

\* The variables the evaluation of the head of p reads, in the order it
\* reads them
HeadReads(p) ==
    LET visited == evalNode(p.If, Runtime).visited
        refs == SelectSeq(visited, LAMBDA n : n.k = "ref")
    IN [i \in 1..Len(refs) |-> refs[i].src]

ScopeRank(name) ==
    CASE name = "principal" -> 1
      [] name = "resource" -> 2
      [] name = "action" -> 3
      [] OTHER -> 4

\* C22: the head of a policy is the conjunction of the lowered scope clauses
\* in the order principal, resource, action: its evaluation reads principal
\* before resource and resource before action; when the three clauses are
\* empty the head is the literal true.
C22_HeadIsScopeInOrder ==
    Len(policies) = Len(sources) =>
        \A i \in AllPolicies :
            /\ \A a, b \in 1..Len(HeadReads(policies[i])) :
                  a < b => ScopeRank(HeadReads(policies[i])[a])
                              <= ScopeRank(HeadReads(policies[i])[b])
            /\ (sources[i].Principal = NoScope /\ sources[i].Resource = NoScope
                  /\ sources[i].Action = NoAction) => policies[i].If = trueValue

\* The lowering of `context` followed by the accesses of path: `.name`
\* looks up the identifier, `["name"]` the string (asIndex), or the
\* identifier as well (the dotted twin of the path)
RECURSIVE LookupChain(_, _, _, _)
LookupChain(path, i, e, asIndex) ==
    IF i > Len(path) THEN e
    ELSE LookupChain(path, i + 1,
                     BinaryExpr(".", e,
                                IF asIndex /\ path[i].kind = "index"
                                THEN ValueNode(StrValue(path[i].name))
                                ELSE Identifier(path[i].name)),
                     asIndex)

Outcome(r) == [ok |-> r.ok, val |-> r.val, err |-> r.err]

\* C23: index access e["k"] lowers to Binary(Lookup, e, Value(Str("k"))),
\* so it evaluates to attribute k of e exactly as e.k does, also when it
\* follows other accesses as in e.x["k"].
C23_IndexIsLookup ==
    exprIn.k = "source" =>
        /\ exprOut.parsed
        /\ exprOut.node = LookupChain(exprIn.path, 1, Reference("context"), TRUE)
        /\ Outcome(exprOut.res)
             = Outcome(evalNode(LookupChain(exprIn.path, 1, Reference("context"), FALSE),
                                WithContext(Runtime, exprIn.Context)))

\* Every backslash of the body of a literal is followed by a star or a
\* backslash
RECURSIVE WellEscaped(_)
WellEscaped(body) ==
    IF body = <<>> THEN TRUE
    ELSE IF body[1] = "\\"
    THEN Len(body) >= 2 /\ body[2] \in {"*", "\\"} /\ WellEscaped(SubSeq(body, 3, Len(body)))
    ELSE WellEscaped(Tail(body))

\* C24: in a `like` pattern written in policy source, \* stands for exactly
\* one literal star and \\ for exactly one literal backslash, from the
\* string literal through lowering to matching.
C24_EscapesSurviveLowering ==
    (exprIn.k = "quoted" /\ WellEscaped(exprIn.body))
        => /\ exprOut.parsed
           /\ exprOut.res.ok
           /\ exprOut.res.val.b <=> Matches(exprIn.body, exprIn.subj)

IsCall(name) == exprIn.k = "call" /\ exprIn.name = name

\* The values of a set literal
ItemsOf(n) == {n.exprs[i].v : i \in 1..Len(n.exprs)}

\* C25: s.containsAll(t) is true exactly when every element of t has an
\* equal element in s, also for empty sets and for sets of entities.
C25_ContainsAllIsSubset ==
    IsCall("containsAll")
        => /\ exprOut.ok
           /\ exprOut.val.b <=> ItemsOf(exprIn.args[1]) \subseteq ItemsOf(exprIn.self)

IsDivision == exprIn.k = "binary" /\ exprIn.op \in {"/", "%"}

\* C26: division or modulo with a zero right operand yields an evaluation
\* error, captured like any other evaluation error; it never crashes the
\* evaluator.
C26_DivisionByZeroIsError ==
    (IsDivision /\ exprIn.right.v = IntValue(0) /\ exprIn.left.v.t = "long")
        => /\ ~exprOut.ok
           /\ exprOut.err # PanicDivide.err

\* Every '_' of text stands between two digits
WellSeparated(text) ==
    \A i \in 1..Len(text) :
        text[i] = "_" =>
            /\ i > 1 /\ i < Len(text)
            /\ text[i - 1] # "_" /\ text[i + 1] # "_"

\* The number the digits of text denote, separators left out
RECURSIVE DigitsValue(_)
DigitsValue(text) ==
    IF text = <<>> THEN 0
    ELSE IF text[Len(text)] = "_" THEN DigitsValue(SubSeq(text, 1, Len(text) - 1))
    ELSE 10 * DigitsValue(SubSeq(text, 1, Len(text) - 1))
            + (CHOOSE d \in 0..9 : ToString(d) = text[Len(text)])

\* C27: an integer literal whose '_' separators each stand between two
\* digits (1_000) is accepted by the scanner without error and lowers to
\* the Long of its digits with the separators removed.
C27_SeparatedLiteralLowers ==
    (exprIn.k = "number" /\ WellSeparated(exprIn.text))
        => /\ exprOut.parsed
           /\ exprOut.node = ValueNode(IntValue(DigitsValue(exprIn.text)))

Apply(op, x, y) == IF op = "ADD" THEN x + y ELSE x - y

\* C28: chained + and - associate to the left: a - b - c evaluates to
\* (a - b) - c for all Long values.
C28_AdditiveChainAssociatesLeft ==
    exprIn.k = "chain"
        => /\ exprOut.parsed
           /\ exprOut.res.ok
           /\ exprOut.res.val
                = IntValue(Apply(exprIn.op2, Apply(exprIn.op1, exprIn.a, exprIn.b), exprIn.c))

\* The text of the address of a call ip("<text>").f()
IpTextOf(n) == n.self.args[1].v.s

IsIpCall == exprIn.k = "call" /\ exprIn.name \in {"isIpv4", "isIpv6"}

\* C29: for every successfully parsed IP value, isIpv6() is true exactly
\* when the address is an IPv6 address (written with colons), so isIpv4()
\* and isIpv6() are never both true for the same value.
C29_Ipv6ExactlyForIpv6 ==
    (IsIpCall /\ NewIpValue(IpTextOf(exprIn)).ok)
        => /\ exprOut.ok
           /\ exprIn.name = "isIpv6"
                => (exprOut.val.b <=> \E i \in 1..Len(IpTextOf(exprIn)) : IpTextOf(exprIn)[i] = ":")
           /\ ~(/\ functionTable("isIpv4", NewIpValue(IpTextOf(exprIn)).val, <<>>).val.b
                /\ functionTable("isIpv6", NewIpValue(IpTextOf(exprIn)).val, <<>>).val.b)

\* A step that is a call of Scan
IsScanCall == scanner.phase = "scanning" /\ scanner'.calls = scanner.calls + 1

\* C30: the scanner always makes forward progress: a call of Scan on a text
\* that is not at its end leaves the scanner at a greater offset, so every
\* text, one with characters of no token included, is scanned to the EOF
\* token in finitely many calls, at most one for each byte and one for the
\* end.
C30_ScanMakesProgress ==
    /\ [][IsScanCall /\ scanner.s.offset < Len(scanner.s.src)
            => scanner'.s.offset > scanner.s.offset]_vars
    /\ [](scanner.phase = "scanning" => scanner.calls <= Len(scanner.s.src) + 1)
    /\ (scanner.phase = "scanning" ~> (scanner.phase # "idle" /\ scanner.tok = "EOF"))

\* A text with a character of no token in it has been scanned to its end,
\* the error reported
C30_Witness ==
    /\ scanner.phase = "done"
    /\ scanner.tok = "EOF"
    /\ scanner.s.errors
    /\ \E i \in 1..Len(scanner.s.src) : scanner.s.src[i] = "#"
    /\ scanner.calls > 2

====
